---------------------------- MODULE Spec2Model ----------------------------
(***************************************************************************)
(* HiPIMS-OCL: the per-step device pipeline (boundary kernels, CFL         *)
(* reduction, timestep controller, Godunov / inertial scheme kernels,      *)
(* point-implicit friction) and the host's ping-pong buffer swap.          *)
(*                                                                         *)
(* Arithmetic.  cl_double values are modelled in fixed point:              *)
(*   - levels, depths, discharges, velocities, fluxes: whole units;        *)
(*   - times (t, dt, t_hydro, t_sync): ticks, TicksPerSecond per second;   *)
(*   - sums and products of whole values are exact; a quotient (Div) and   *)
(*     a root are rounded to the nearest value, as IEEE arithmetic rounds; *)
(*     x/0 = +-INFINITY;                                                   *)
(*   - the friction term works on fractions (n, 1/h^2, C_f): its values    *)
(*     are kept to 1/FIXED_ONE, every product and quotient rounded.        *)
(* VERY_SMALL (about 1e-14) lies below the resolution; it is one unit, so  *)
(* that "x < VERY_SMALL" reads "x <= 0" and "x <= VERY_SMALL" still has a  *)
(* positive case.  TIMESTEP_MINIMUM (1e-10) is the smallest value that     *)
(* keeps a representable gap above VERY_SMALL.  All other constants are to *)
(* scale.                                                                  *)
(***************************************************************************)
EXTENDS Integers, Sequences, FiniteSets, TLC

\* ------------------------------------------------------------------------
\* Fixed-point arithmetic
\* ------------------------------------------------------------------------

TicksPerSecond == 100

INFINITY == 1000000

fmax(a, b) == IF a >= b THEN a ELSE b

fmin(a, b) == IF a <= b THEN a ELSE b

fabs(a) == IF a < 0 THEN 0 - a ELSE a

sign(a) == IF a > 0 THEN 1 ELSE IF a < 0 THEN 0 - 1 ELSE 0

\* a / b on doubles: the quotient rounded to the nearest representable
\* value, ties to even; division by zero gives +-inf
Div(a, b) ==
    IF b = 0 THEN (IF a >= 0 THEN INFINITY ELSE 0 - INFINITY)
    ELSE LET n == fabs(a)
             d == fabs(b)
             q == n \div d
             r == n % d
             up == (2 * r > d) \/ (2 * r = d /\ q % 2 = 1)
         IN  sign(a) * sign(b) * (IF up THEN q + 1 ELSE q)

RECURSIVE RootSearch(_, _, _, _)
RootSearch(n, k, lo, hi) ==
    IF lo >= hi THEN lo
    ELSE LET mid == (lo + hi + 1) \div 2
             pw == IF k = 2 THEN mid * mid ELSE mid * mid * mid
         IN  IF pw <= n THEN RootSearch(n, k, mid, hi)
             ELSE RootSearch(n, k, lo, mid - 1)

\* sqrt(n), rounded to nearest
sqrt(n) ==
    IF n <= 0 THEN 0
    ELSE LET r == RootSearch(n, 2, 0, fmin(n, 40000))
         IN  IF n - r * r > r THEN r + 1 ELSE r

\* pow(n, 1.0/3.0), rounded to nearest
cbrt(n) ==
    IF n <= 0 THEN 0
    ELSE LET r == RootSearch(n, 3, 0, fmin(n, 1000))
         IN  IF (r + 1) * (r + 1) * (r + 1) - n < n - r * r * r THEN r + 1 ELSE r

\* ------------------------------------------------------------------------
\* Build-time macros and header constants
\* ------------------------------------------------------------------------

VERY_SMALL == 1

QUITE_SMALL == 2

GRAVITY == 10

NODATA == -9999

MAXFSL_LIMIT == -9990

DOMAIN_COLS == 5

DOMAIN_ROWS == 5

DOMAIN_DELTAX == 1

DOMAIN_DELTAY == 1

DOMAIN_DIR_N == 0

DOMAIN_DIR_E == 1

DOMAIN_DIR_S == 2

DOMAIN_DIR_W == 3

DOMAIN_CELLCOUNT == DOMAIN_COLS * DOMAIN_ROWS

Cells == 0 .. (DOMAIN_CELLCOUNT - 1)

\* id(i,j) = j*C + i
getCellID(lIdxX, lIdxY) == lIdxY * DOMAIN_COLS + lIdxX

CellX(c) == c % DOMAIN_COLS

CellY(c) == c \div DOMAIN_COLS

\* neighbour of (x,y) in direction d; out-of-bounds clamp to the edge
getNeighbourByIndices(lIdxX, lIdxY, ucDirection) ==
    LET nx == IF ucDirection = DOMAIN_DIR_E THEN lIdxX + 1
              ELSE IF ucDirection = DOMAIN_DIR_W THEN lIdxX - 1 ELSE lIdxX
        ny == IF ucDirection = DOMAIN_DIR_N THEN lIdxY + 1
              ELSE IF ucDirection = DOMAIN_DIR_S THEN lIdxY - 1 ELSE lIdxY
    IN  getCellID(fmax(0, fmin(DOMAIN_COLS - 1, nx)),
                  fmax(0, fmin(DOMAIN_ROWS - 1, ny)))

\* the work-items that pass the "beyond the domain bounds" guard
Interior(c) ==
    /\ CellX(c) > 0
    /\ CellY(c) > 0
    /\ CellX(c) < DOMAIN_COLS - 1
    /\ CellY(c) < DOMAIN_ROWS - 1

InteriorCells == {c \in Cells : Interior(c)}

\* cl_double4 cell state: x = eta, y = eta_max, z = q_x, w = q_y
Cell4(x, y, z, w) == [x |-> x, y |-> y, z |-> z, w |-> w]

\* "Cell disabled?" guard of the kernels
Disabled(p) == p.y <= NODATA \/ p.x = NODATA

\* ------------------------------------------------------------------------
\* Timestep block: constants (ticks)
\* ------------------------------------------------------------------------

TIMESTEP_EARLY_LIMIT == 10

TIMESTEP_EARLY_LIMIT_DURATION == 6000

TIMESTEP_START_MINIMUM == 3

TIMESTEP_START_MINIMUM_DURATION == 100

TIMESTEP_MINIMUM == 3

TIMESTEP_MAXIMUM == 1500

TIMESTEP_HYDROLOGICAL == 25

SCHEME_ENDTIME == 9000

\* COURANT_NUMBER = 0.5 as a ratio
COURANT_NUM == 1

COURANT_DEN == 2

TIMESTEP_WORKERS == 2

TIMESTEP_GROUPSIZE == 4

VARIABLES
    pCellStateSrc,      \* current cell states (the scheme kernels' source)
    pCellStateDst,      \* the other ping-pong copy (their destination)
    dBedElevation,      \* z_b per cell
    dManningCoef,       \* n per cell
    pReductionData,     \* W[0..G-1], per-workgroup maximum wave speed
    dTime,
    dTimestep,
    dTimeHydrological,
    dTimeSync,
    dBatchTimesteps,
    uiBatchSuccessful,
    uiBatchSkipped,
    lastKernel,         \* history: name of the operation that ran last
    prevSrc,            \* history: current buffer before the last operation
    prevDst,            \* history: other buffer before the last operation
    nLaunch,            \* history: number of kernels launched so far
    hostQueue,          \* the launches of one step, in the order the host queues them
    stage,              \* position in hostQueue of the next launch
    frArgs,             \* arguments of a call of a device function alone
    frResult,           \* what the call returned
    pipeRun,            \* history: how the iteration of the last bdy_SimplePipe ended
    streaming           \* the CBoundaryStreamingGridded object of the host, alone

gridVars == <<pCellStateSrc, pCellStateDst, dBedElevation, dManningCoef>>

timeVars == <<dTime, dTimestep, dTimeHydrological, dTimeSync,
              dBatchTimesteps, uiBatchSuccessful, uiBatchSkipped>>

histVars == <<lastKernel, prevSrc, prevDst, nLaunch, pipeRun>>

frVars == <<frArgs, frResult, streaming>>

hostVars == <<hostQueue, stage>>

vars == <<gridVars, pReductionData, timeVars, histVars, frVars, hostVars>>

\* ------------------------------------------------------------------------
\* tst_Reduce
\* ------------------------------------------------------------------------

\* wave speed of one cell (TIMESTEP_SIMPLIFIED undefined)
CellSpeed(pCellState, dBed) ==
    LET dDepth == pCellState.x - dBed
    IN  IF dDepth > QUITE_SMALL /\ pCellState.y > NODATA
        THEN LET dVelX == fabs(Div(pCellState.z, dDepth)) + sqrt(GRAVITY * dDepth)
                 dVelY == fabs(Div(pCellState.w, dDepth)) + sqrt(GRAVITY * dDepth)
             IN  fmax(dVelX, dVelY)
        ELSE 0

\* the while loop of one work-item: cells gid, gid + global size, ...
RECURSIVE StridedMax(_, _, _, _)
StridedMax(pCellData, dBedData, ulCellID, dMaxSpeed) ==
    IF ulCellID >= DOMAIN_CELLCOUNT THEN dMaxSpeed
    ELSE StridedMax(pCellData, dBedData,
                    ulCellID + TIMESTEP_WORKERS * TIMESTEP_GROUPSIZE,
                    fmax(dMaxSpeed, CellSpeed(pCellData[ulCellID], dBedData[ulCellID])))

\* the funnelling loop of one work-group on its scratch array
RECURSIVE Funnel(_, _)
Funnel(pScratchData, iOffset) ==
    IF iOffset <= 0 THEN pScratchData
    ELSE Funnel([l \in 0 .. (TIMESTEP_GROUPSIZE - 1) |->
                    IF l < iOffset
                    THEN fmax(pScratchData[l], pScratchData[l + iOffset])
                    ELSE pScratchData[l]],
                iOffset \div 2)

ReduceGroup(pCellData, dBedData, group) ==
    LET scratch == [l \in 0 .. (TIMESTEP_GROUPSIZE - 1) |->
                       StridedMax(pCellData, dBedData,
                                  group * TIMESTEP_GROUPSIZE + l, 0)]
    IN  Funnel(scratch, TIMESTEP_GROUPSIZE \div 2)[0]

ReduceAll(pCellData, dBedData) ==
    [group \in 0 .. (TIMESTEP_WORKERS - 1) |-> ReduceGroup(pCellData, dBedData, group)]

\* ------------------------------------------------------------------------
\* tst_Advance_Normal / tst_UpdateTimestep: the steps of the controller
\* ------------------------------------------------------------------------

RECURSIVE MaxSpeedLoop(_, _, _)
MaxSpeedLoop(W, i, dMaxSpeed) ==
    IF i >= TIMESTEP_WORKERS THEN dMaxSpeed
    ELSE MaxSpeedLoop(W, i + 1, fmax(dMaxSpeed, W[i]))

MaxSpeed(W) == MaxSpeedLoop(W, 0, 0)

\* variant: the Courant number left out
NoCourant(dMinTime) == dMinTime

MulCourant(dMinTime) == Div(COURANT_NUM * dMinTime, COURANT_DEN)

\* dMinTime = DOMAIN_DELTAX / dMaxSpeed, in ticks
MinTime(dMaxSpeed) == Div(DOMAIN_DELTAX * TicksPerSecond, dMaxSpeed)

\* "Force progression at the start of a simulation"
StartMinimum(dLclTime, dMinTime) ==
    IF dLclTime < TIMESTEP_START_MINIMUM_DURATION /\ dMinTime < TIMESTEP_START_MINIMUM
    THEN TIMESTEP_START_MINIMUM
    ELSE dMinTime

DynamicTimestep(dLclTime, W) ==
    MulCourant(StartMinimum(dLclTime, MinTime(MaxSpeed(W))))

\* variant: no minimum imposed
NoMinimum(dLclTimestep) == dLclTimestep

\* "Impose a minimum timestep"
ImposeMinimum(dLclTimestep) ==
    IF dLclTimestep > 0 /\ dLclTimestep < TIMESTEP_MINIMUM
    THEN TIMESTEP_MINIMUM
    ELSE dLclTimestep

\* variant: the sync time not looked at
NoSyncLimit(dLclTime, dLclTimestep, dLclSyncTime) == dLclTimestep

\* variant: the timestep negated wherever it is not cut to the sync time
SyncLimitNegate(dLclTime, dLclTimestep, dLclSyncTime) ==
    IF dLclTime + dLclTimestep >= dLclSyncTime /\ dLclSyncTime - dLclTime > VERY_SMALL
    THEN dLclSyncTime - dLclTime
    ELSE 0 - dLclTimestep

\* "Don't exceed the sync time" (tst_Advance_Normal)
SyncLimitAdvance(dLclTime, dLclTimestep, dLclSyncTime) ==
    IF dLclTime + dLclTimestep >= dLclSyncTime
    THEN IF dLclSyncTime - dLclTime > VERY_SMALL
         THEN dLclSyncTime - dLclTime
         ELSE 0 - dLclTimestep
    ELSE dLclTimestep

\* "Don't exceed the sync time" (tst_UpdateTimestep)
SyncLimitUpdate(dLclTime, dLclTimestep, dLclSyncTime) ==
    IF dLclTime + dLclTimestep >= dLclSyncTime
    THEN fmax(0, dLclSyncTime - dLclTime)
    ELSE dLclTimestep

EarlyLimit(dLclTime, dLclTimestep) ==
    IF dLclTime < TIMESTEP_EARLY_LIMIT_DURATION /\ dLclTimestep > TIMESTEP_EARLY_LIMIT
    THEN TIMESTEP_EARLY_LIMIT
    ELSE dLclTimestep

\* variant: the hydrological time wrapped to zero as soon as the sum exceeds
\* the period
HydroWrap(dLclTimeHydrological, dLclTimestep) ==
    IF dLclTimeHydrological + dLclTimestep > TIMESTEP_HYDROLOGICAL
    THEN 0 ELSE dLclTimeHydrological + dLclTimestep

HydroClock(dLclTimeHydrological, dLclTimestep) ==
    (IF dLclTimeHydrological <= TIMESTEP_HYDROLOGICAL
     THEN dLclTimeHydrological ELSE 0) + dLclTimestep

\* the candidate timestep of tst_Advance_Normal, before the sync time is
\* looked at
CandidateTimestep(dLclTime, W) == ImposeMinimum(DynamicTimestep(dLclTime, W))

\* what tst_Advance_Normal does to the timestep after the sync time: the
\* early limit, the end of the simulation, the maximum
LimitsAfterSync(dLclTime, dLclTimestep) ==
    fmin(fmin(EarlyLimit(dLclTime, dLclTimestep), SCHEME_ENDTIME - dLclTime),
         TIMESTEP_MAXIMUM)

\* the timestep tst_Advance_Normal commits, given the advanced time
AdvanceTimestep(dLclTime, W, dLclSyncTime) ==
    LimitsAfterSync(dLclTime,
                    SyncLimitAdvance(dLclTime, CandidateTimestep(dLclTime, W), dLclSyncTime))

\* the timestep tst_UpdateTimestep commits
UpdateTimestep(dLclTime, dLclOriginalTimestep, W, dLclSyncTime) ==
    LET dt1 == DynamicTimestep(dLclTime, W)
        dt2 == fmin(dt1, dLclOriginalTimestep)
        dt3 == EarlyLimit(dLclTime, dt2)
        dt4 == SyncLimitUpdate(dLclTime, dt3, dLclSyncTime)
    IN  fmin(dt4, TIMESTEP_MAXIMUM)

\* ------------------------------------------------------------------------
\* implicitFriction (CLFriction.clc).  All values in 1/FIXED_ONE.
\* ------------------------------------------------------------------------

FIXED_ONE == 100

FMul(a, b) == Div(a * b, FIXED_ONE)

FDiv(a, b) == Div(a * FIXED_ONE, b)

FSqrt(a) == sqrt(a * FIXED_ONE)

FCbrt(a) == cbrt(a * FIXED_ONE * FIXED_ONE)

\* dCf * sDepthR
FrictionFactor(dDepth, dManningCoefficient) ==
    LET sDepthR == FDiv(FIXED_ONE, FMul(dDepth, dDepth))
        dCf == FDiv(FMul(FMul(GRAVITY * FIXED_ONE, dManningCoefficient),
                         dManningCoefficient),
                    FCbrt(dDepth))
    IN  FMul(dCf, sDepthR)

\* variant: the friction slope with the sign of the flow
FrictionSlopeAlong(dK, dQcomp, dQ) == FMul(FMul(dK, dQcomp), dQ)

\* dSfx = (-dCf * sDepthR) * q * dQ
FrictionSlope(dK, dQcomp, dQ) == FMul(FMul(0 - dK, dQcomp), dQ)

\* "Friction can only stop flow, not reverse it"
LimitFriction(dF, dQcomp, dLclTimestepR) ==
    IF dQcomp >= 0
    THEN fmax(dF, FMul(0 - dQcomp, dLclTimestepR))
    ELSE fmin(dF, FMul(0 - dQcomp, dLclTimestepR))

implicitFriction(pCellState, dBed, dDepth, dManningCoefficient, dLclTimestep) ==
    LET z == pCellState.z
        w == pCellState.w
        dQ == FSqrt(FMul(z, z) + FMul(w, w))
        dQi == FDiv(FIXED_ONE, dQ)
        dK == FrictionFactor(dDepth, dManningCoefficient)
        dSfx == FrictionSlope(dK, z, dQ)
        dSfy == FrictionSlope(dK, w, dQ)
        dDx == FIXED_ONE
               + FMul(FMul(FMul(dLclTimestep, dK), 2 * FMul(z, z) + FMul(w, w)), dQi)
        dDy == FIXED_ONE
               + FMul(FMul(FMul(dLclTimestep, dK), FMul(z, z) + 2 * FMul(w, w)), dQi)
        dLclTimestepR == FDiv(FIXED_ONE, dLclTimestep)
        dFx == LimitFriction(FDiv(dSfx, dDx), z, dLclTimestepR)
        dFy == LimitFriction(FDiv(dSfy, dDy), w, dLclTimestepR)
    IN  IF dQ < VERY_SMALL THEN pCellState
        ELSE [pCellState EXCEPT !.z = z + FMul(dLclTimestep, dFx),
                                !.w = w + FMul(dLclTimestep, dFy)]

\* ------------------------------------------------------------------------
\* reconstructInterface (Godunov-type scheme)
\* ------------------------------------------------------------------------

\* cl_double8 of the Riemann problem: Z, H, Qx, Qy, U, V, Zb
Recon8(pState, dBed) ==
    LET dDepth == pState.x - dBed
    IN  [S0 |-> pState.x,
         S1 |-> dDepth,
         S2 |-> pState.z,
         S3 |-> pState.w,
         S4 |-> IF dDepth < VERY_SMALL THEN 0 ELSE Div(pState.z, dDepth),
         S5 |-> IF dDepth < VERY_SMALL THEN 0 ELSE Div(pState.w, dDepth),
         S6 |-> dBed]

\* variant: the depth against the higher bed taken as it is
RepositionRaw(pRecon, pState, dBedMaximum) ==
    [pRecon EXCEPT !.S1 = pState.x - dBedMaximum,
                   !.S0 = pState.x,
                   !.S2 = (pState.x - dBedMaximum) * pRecon.S4,
                   !.S3 = (pState.x - dBedMaximum) * pRecon.S5]

\* depth-positivity-preserving levels and discharges against the higher bed
Reposition(pRecon, pState, dBedMaximum) ==
    LET dH == fmax(pState.x - dBedMaximum, 0)
    IN  [pRecon EXCEPT !.S1 = dH,
                       !.S0 = dH + dBedMaximum,
                       !.S2 = dH * pRecon.S4,
                       !.S3 = dH * pRecon.S5]

\* variant: no shift of the bed and the levels at an emerged bed
NoShift(pStateLeft, pStateRight, dBedMaximum, ucDirection) == 0

\* dShiftV
ShiftV(pStateLeft, pStateRight, dBedMaximum, ucDirection) ==
    fmax(dBedMaximum - (IF ucDirection < DOMAIN_DIR_S THEN pStateLeft ELSE pStateRight).x, 0)

\* variant: the velocity of the wet side stopped where it points to the dry
\* side
StopSwitchTowards(pL, pR, pStateLeft, pStateRight, ucDirection) ==
    LET ns == ucDirection = DOMAIN_DIR_N \/ ucDirection = DOMAIN_DIR_S
        velL == IF ns THEN pL.S5 ELSE pL.S4
        velR == IF ns THEN pR.S5 ELSE pR.S4
        second == pR.S1 <= VERY_SMALL /\ velL > 0
        third == pL.S1 <= VERY_SMALL /\ velR < 0
        newL == IF ~second THEN pL
                ELSE IF ns THEN [pL EXCEPT !.S5 = 0] ELSE [pL EXCEPT !.S4 = 0]
        newR == IF ~third THEN pR
                ELSE IF ns THEN [pR EXCEPT !.S5 = 0] ELSE [pR EXCEPT !.S4 = 0]
    IN  [pLeft |-> newL,
         pRight |-> newR,
         ucStop |-> (IF second THEN 1 ELSE 0) + (IF third THEN 1 ELSE 0)]

\* the switch on the direction: the "stop" conditions, and the velocities
\* they zero.  vel is "S5" for N and S, "S4" for E and W.
StopSwitch(pL, pR, pStateLeft, pStateRight, ucDirection) ==
    LET ns == ucDirection = DOMAIN_DIR_N \/ ucDirection = DOMAIN_DIR_S
        velL == IF ns THEN pL.S5 ELSE pL.S4
        velR == IF ns THEN pR.S5 ELSE pR.S4
        first ==
            IF ucDirection = DOMAIN_DIR_N THEN pL.S1 <= VERY_SMALL /\ pStateLeft.w > 0
            ELSE IF ucDirection = DOMAIN_DIR_S THEN pR.S1 <= VERY_SMALL /\ pStateRight.w < 0
            ELSE IF ucDirection = DOMAIN_DIR_E THEN pL.S1 <= VERY_SMALL /\ pStateLeft.z > 0
            ELSE pR.S1 <= VERY_SMALL /\ pStateRight.z < 0
        second == pR.S1 <= VERY_SMALL /\ velL < 0
        third == pL.S1 <= VERY_SMALL /\ velR > 0
        newL == IF ~second THEN pL
                ELSE IF ns THEN [pL EXCEPT !.S5 = 0] ELSE [pL EXCEPT !.S4 = 0]
        newR == IF ~third THEN pR
                ELSE IF ns THEN [pR EXCEPT !.S5 = 0] ELSE [pR EXCEPT !.S4 = 0]
    IN  [pLeft |-> newL,
         pRight |-> newR,
         ucStop |-> (IF first THEN 1 ELSE 0) + (IF second THEN 1 ELSE 0)
                    + (IF third THEN 1 ELSE 0)]

reconstructInterface(pStateLeft, dBedLeft, pStateRight, dBedRight, ucDirection) ==
    LET dBedMaximum == IF dBedLeft > dBedRight THEN dBedLeft ELSE dBedRight
        dShiftV == ShiftV(pStateLeft, pStateRight, dBedMaximum, ucDirection)
        pL == Reposition(Recon8(pStateLeft, dBedLeft), pStateLeft, dBedMaximum)
        pR == Reposition(Recon8(pStateRight, dBedRight), pStateRight, dBedMaximum)
        sw == StopSwitch(pL, pR, pStateLeft, pStateRight, ucDirection)
    IN  [pLeft |-> [sw.pLeft EXCEPT !.S6 = dBedMaximum - dShiftV,
                                    !.S0 = sw.pLeft.S0 - dShiftV],
         pRight |-> [sw.pRight EXCEPT !.S6 = dBedMaximum - dShiftV,
                                      !.S0 = sw.pRight.S0 - dShiftV],
         ucStop |-> sw.ucStop]

\* ------------------------------------------------------------------------
\* riemannSolver (HLLC).  A flux is a cl_double4 <<mass, x-mom., y-mom., 0>>,
\* here a record x, y, z.
\* ------------------------------------------------------------------------

Flux3(x, y, z) == [x |-> x, y |-> y, z |-> z]

\* 0.5 * GRAVITY * ( eta*eta - 2 * zb * eta )
HydrostaticTerm(eta, zb) == Div(GRAVITY * (eta * eta - 2 * zb * eta), 2)

\* "Are both sides dry? Simple solution if so..."
DryFlux(d0, d1, pLeft, pRight) ==
    LET mean == Div(pLeft.S0 + pRight.S0, 2)
        term == Div(GRAVITY * (mean * mean - pLeft.S6 * (pLeft.S0 + pRight.S0)), 2)
    IN  Flux3(0, d0 * term, d1 * term)

\* "Is one side dry?": the velocities taken again from the discharges
Velocities(p) ==
    [p EXCEPT !.S4 = IF p.S1 < VERY_SMALL THEN 0 ELSE Div(p.S2, p.S1),
              !.S5 = IF p.S1 < VERY_SMALL THEN 0 ELSE Div(p.S3, p.S1)]

\* dVel, dDis and dA of one side, along the direction vector <<d0, d1>>
Along(d0, d1, p) ==
    [dVel |-> d0 * p.S4 + d1 * p.S5,
     dDis |-> d0 * p.S2 + d1 * p.S3,
     dA |-> sqrt(GRAVITY * p.S1)]

\* a_Avg, H_star, U_star, A_star
StarRegion(l, r) ==
    LET hs == Div(l.dA + r.dA, 2) + Div(l.dVel - r.dVel, 4)
    IN  [U_star |-> Div(l.dVel + r.dVel, 2) + l.dA - r.dA,
         A_star |-> sqrt(GRAVITY * Div(hs * hs, GRAVITY))]

\* "Calculate speed estimates"
WaveSpeeds(pLeft, pRight, l, r, star) ==
    [s_L |-> IF pLeft.S1 < VERY_SMALL THEN r.dVel - 2 * r.dA
             ELSE IF l.dVel - l.dA > star.U_star - star.A_star
                  THEN star.U_star - star.A_star
             ELSE l.dVel - l.dA,
     s_R |-> IF pRight.S1 < VERY_SMALL THEN l.dVel + 2 * l.dA
             ELSE IF r.dVel + r.dA < star.U_star + star.A_star
                  THEN star.U_star + star.A_star
             ELSE r.dVel + r.dA]

\* s_M >= 0.0; a NaN (0/0) compares false
MiddleSpeedNonNegative(pLeft, pRight, l, r, s) ==
    LET sMnum == s.s_L * pRight.S1 * (r.dVel - s.s_R) - s.s_R * pLeft.S1 * (l.dVel - s.s_L)
        sMden == pRight.S1 * (r.dVel - s.s_R) - pLeft.S1 * (l.dVel - s.s_L)
    IN  IF sMden = 0 THEN sMnum > 0 ELSE Div(sMnum, sMden) >= 0

\* pFluxL (p = pLeft) and pFluxR (p = pRight); both take the bed of pLeft
SideFlux(d0, d1, p, v, dBed) ==
    Flux3(v.dDis,
          v.dVel * p.S2 + d0 * HydrostaticTerm(p.S0, dBed),
          v.dVel * p.S3 + d1 * HydrostaticTerm(p.S0, dBed))

\* the flux of the middle region; side is pLeft for bMiddle_1, pRight for
\* bMiddle_2
MiddleFlux(d0, d1, pLeft, pRight, l, r, s, pFluxL, pFluxR, side) ==
    LET F1_M == Div(s.s_R * pFluxL.x - s.s_L * pFluxR.x
                      + s.s_L * s.s_R * (pRight.S0 - pLeft.S0),
                    s.s_R - s.s_L)
        F2_M == Div(s.s_R * (d0 * pFluxL.y + d1 * pFluxL.z)
                      - s.s_L * (d0 * pFluxR.y + d1 * pFluxR.z)
                      + s.s_L * s.s_R * (r.dDis - l.dDis),
                    s.s_R - s.s_L)
    IN  Flux3(F1_M,
              d0 * F2_M + d1 * F1_M * side.S4,
              d0 * F1_M * side.S5 + d1 * F2_M)

\* "Selection of the final result": bLeft, bRight, else bMiddle_1 or bMiddle_2
SelectFlux(d0, d1, pLeft, pRight, l, r, s) ==
    IF s.s_L >= 0 THEN SideFlux(d0, d1, pLeft, l, pLeft.S6)
    ELSE IF ~(s.s_R >= 0) THEN SideFlux(d0, d1, pRight, r, pLeft.S6)
    ELSE MiddleFlux(d0, d1, pLeft, pRight, l, r, s,
                    SideFlux(d0, d1, pLeft, l, pLeft.S6),
                    SideFlux(d0, d1, pRight, r, pLeft.S6),
                    IF MiddleSpeedNonNegative(pLeft, pRight, l, r, s)
                    THEN pLeft ELSE pRight)

\* the solver once the velocities are taken again
SolveWet(d0, d1, pLeft, pRight, l, r) ==
    SelectFlux(d0, d1, pLeft, pRight, l, r,
               WaveSpeeds(pLeft, pRight, l, r, StarRegion(l, r)))

SolveSides(d0, d1, pLeft, pRight) ==
    SolveWet(d0, d1, pLeft, pRight, Along(d0, d1, pLeft), Along(d0, d1, pRight))

SolveAlong(d0, d1, pLeft, pRight) ==
    IF pLeft.S1 < VERY_SMALL /\ pRight.S1 < VERY_SMALL
    THEN DryFlux(d0, d1, pLeft, pRight)
    ELSE SolveSides(d0, d1, Velocities(pLeft), Velocities(pRight))

riemannSolver(ucDirection, pLeft, pRight) ==
    IF ucDirection = DOMAIN_DIR_N \/ ucDirection = DOMAIN_DIR_S
    THEN SolveAlong(0, 1, pLeft, pRight)
    ELSE SolveAlong(1, 0, pLeft, pRight)

\* ------------------------------------------------------------------------
\* gts_cacheDisabled / gts_cacheEnabled: the work of one work-item once its
\* cell and the four neighbours are loaded
\* ------------------------------------------------------------------------

Neighbour(c, ucDirection) == getNeighbourByIndices(CellX(c), CellY(c), ucDirection)

\* "All neighbours are dry? Don't bother calculating"
AllDry(pCellData, dBedData, c) ==
    /\ pCellData[c].x - dBedData[c] < VERY_SMALL
    /\ \A d \in {DOMAIN_DIR_N, DOMAIN_DIR_E, DOMAIN_DIR_S, DOMAIN_DIR_W} :
          pCellData[Neighbour(c, d)].x - dBedData[Neighbour(c, d)] < VERY_SMALL

\* the reconstructed interface of cell c in direction d; the cell is the
\* left state to the north and east, the right state to the south and west
Interface(pCellData, dBedData, c, d) ==
    IF d = DOMAIN_DIR_N \/ d = DOMAIN_DIR_E
    THEN reconstructInterface(pCellData[c], dBedData[c],
                              pCellData[Neighbour(c, d)], dBedData[Neighbour(c, d)], d)
    ELSE reconstructInterface(pCellData[Neighbour(c, d)], dBedData[Neighbour(c, d)],
                              pCellData[c], dBedData[c], d)

\* variant: the mean depth in place of the mean level
RawBedSlopeTerm(plus, minus, dDelta) ==
    0 - Div(GRAVITY * (plus.S1 + minus.S1) * (plus.S6 - minus.S6), 2 * dDelta)

\* pSourceTerms.y (plus = east, minus = west side) and .z (north, south): bed
\* slope from the reconstructed neighbour levels and beds
BedSlopeTerm(plus, minus, dDelta) ==
    0 - Div(GRAVITY * (plus.S0 + minus.S0) * (plus.S6 - minus.S6), 2 * dDelta)

Negligible(v) == IF fabs(v) < VERY_SMALL THEN 0 ELSE v

\* dDeltaValues from the four fluxes and the source terms: x (level),
\* z (q_x), w (q_y)
DeltaValues(fN, fE, fS, fW, srcY, srcZ) ==
    [x |-> Negligible(Div(fE.x - fW.x, DOMAIN_DELTAX) + Div(fN.x - fS.x, DOMAIN_DELTAY)),
     z |-> Negligible(Div(fE.y - fW.y, DOMAIN_DELTAX) + Div(fN.y - fS.y, DOMAIN_DELTAY)
                      - srcY),
     w |-> Negligible(Div(fE.z - fW.z, DOMAIN_DELTAX) + Div(fN.z - fS.z, DOMAIN_DELTAY)
                      - srcZ)]

\* dDeltaValues from the four reconstructed interfaces
InterfaceDelta(iN, iE, iS, iW) ==
    DeltaValues(riemannSolver(DOMAIN_DIR_N, iN.pLeft, iN.pRight),
                riemannSolver(DOMAIN_DIR_E, iE.pLeft, iE.pRight),
                riemannSolver(DOMAIN_DIR_S, iS.pLeft, iS.pRight),
                riemannSolver(DOMAIN_DIR_W, iW.pLeft, iW.pRight),
                BedSlopeTerm(iE.pRight, iW.pLeft, DOMAIN_DELTAX),
                BedSlopeTerm(iN.pRight, iS.pLeft, DOMAIN_DELTAY))

GodunovDelta(pCellData, dBedData, c) ==
    InterfaceDelta(Interface(pCellData, dBedData, c, DOMAIN_DIR_N),
                   Interface(pCellData, dBedData, c, DOMAIN_DIR_E),
                   Interface(pCellData, dBedData, c, DOMAIN_DIR_S),
                   Interface(pCellData, dBedData, c, DOMAIN_DIR_W))

\* ucStop summed over the four interfaces
StopCount(pCellData, dBedData, c) ==
    Interface(pCellData, dBedData, c, DOMAIN_DIR_N).ucStop
    + Interface(pCellData, dBedData, c, DOMAIN_DIR_S).ucStop
    + Interface(pCellData, dBedData, c, DOMAIN_DIR_E).ucStop
    + Interface(pCellData, dBedData, c, DOMAIN_DIR_W).ucStop

\* value * dLclTimestep, the timestep in ticks
TimesStep(v, dLclTimestep) == Div(v * dLclTimestep, TicksPerSecond)

\* "New max FSL?"
UpdateMaxFSL(pCell) ==
    IF pCell.x > pCell.y /\ pCell.y > MAXFSL_LIMIT THEN [pCell EXCEPT !.y = pCell.x]
    ELSE pCell

\* "Crude way of stopping flow": both discharges zeroed when ucStop > 0
StopFlow(pCell, ucStop) ==
    IF ucStop > 0 THEN [pCell EXCEPT !.z = 0, !.w = 0] ELSE pCell

\* "Update the flow state"
UpdateState(pCell, delta, dLclTimestep) ==
    [pCell EXCEPT !.x = pCell.x - TimesStep(delta.x, dLclTimestep),
                  !.z = pCell.z - TimesStep(delta.z, dLclTimestep),
                  !.w = pCell.w - TimesStep(delta.w, dLclTimestep)]

\* the level held on the bed when the depth falls below VERY_SMALL
FloorLevel(pCell, dBed) ==
    IF pCell.x - dBed < VERY_SMALL THEN [pCell EXCEPT !.x = dBed] ELSE pCell

\* the cell state the work-item writes (built without FRICTION_IN_FLUX_KERNEL)
GodunovCell(pCellData, dBedData, c, dLclTimestep) ==
    UpdateMaxFSL(
        FloorLevel(
            UpdateState(StopFlow(pCellData[c], StopCount(pCellData, dBedData, c)),
                        GodunovDelta(pCellData, dBedData, c),
                        dLclTimestep),
            dBedData[c]))

\* pCellStateDst after gts_cacheDisabled
gtsCacheDisabled(pSrc, pDst, dBedData, dLclTimestep) ==
    [c \in Cells |->
        IF ~Interior(c) THEN pDst[c]
        ELSE IF dLclTimestep <= 0 THEN pSrc[c]
        ELSE IF Disabled(pSrc[c]) THEN pSrc[c]
        ELSE IF AllDry(pSrc, dBedData, c) THEN pDst[c]
        ELSE GodunovCell(pSrc, dBedData, c, dLclTimestep)]

\* work-group of the cache-enabled kernels: GTS_DIM1 x GTS_DIM2 work-items,
\* its rim overlapping the neighbouring groups (two cells per group)
GTS_DIM1 == 3

GTS_DIM2 == 3

\* groups per dimension, enough to cover the domain
CacheGroups == 3

\* lIdxX, lIdxY of a work-item, clamped into the domain
CachedIndex(group, lLocal, dim, lLimit) ==
    fmax(0, fmin(lLimit - 1, group * dim + lLocal - group * 2))

\* some work-item of the launch loads cell c
Cached(c) ==
    \E gx \in 0 .. (CacheGroups - 1), gy \in 0 .. (CacheGroups - 1),
       lx \in 0 .. (GTS_DIM1 - 1), ly \in 0 .. (GTS_DIM2 - 1) :
        /\ CachedIndex(gx, lx, GTS_DIM1, DOMAIN_COLS) = CellX(c)
        /\ CachedIndex(gy, ly, GTS_DIM2, DOMAIN_ROWS) = CellY(c)

\* some work-item loads cell c and is not on the rim of its group
CachedInside(c) ==
    \E gx \in 0 .. (CacheGroups - 1), gy \in 0 .. (CacheGroups - 1),
       lx \in 1 .. (GTS_DIM1 - 2), ly \in 1 .. (GTS_DIM2 - 2) :
        /\ CachedIndex(gx, lx, GTS_DIM1, DOMAIN_COLS) = CellX(c)
        /\ CachedIndex(gy, ly, GTS_DIM2, DOMAIN_ROWS) = CellY(c)

\* pCellStateDst after gts_cacheEnabled
gtsCacheEnabled(pSrc, pDst, dBedData, dLclTimestep) ==
    [c \in Cells |->
        IF Cached(c) /\ Disabled(pSrc[c]) THEN pSrc[c]
        ELSE IF ~Interior(c) \/ ~CachedInside(c) THEN pDst[c]
        ELSE IF dLclTimestep <= 0 THEN pDst[c]
        ELSE IF AllDry(pSrc, dBedData, c) THEN pDst[c]
        ELSE GodunovCell(pSrc, dBedData, c, dLclTimestep)]

\* ------------------------------------------------------------------------
\* Inertial scheme: calculateInertialFlux, ine_cacheDisabled, ine_cacheEnabled.
\* Manning's n is held in 1/FIXED_ONE.
\* ------------------------------------------------------------------------

FROUDE_LIMIT == 1

\* pow(dDepth, 10.0/3.0)
Pow10Thirds(dDepth) == dDepth * dDepth * dDepth * cbrt(dDepth)

\* the denominator's friction part, in 1/FIXED_ONE
InertialFriction(dManningCoefficient, dLclTimestep, dPreviousDischarge, dDepth) ==
    Div(Div(GRAVITY * dDepth * dLclTimestep * dManningCoefficient * dManningCoefficient
                * fabs(dPreviousDischarge),
            TicksPerSecond * FIXED_ONE),
        Pow10Thirds(dDepth))

\* variant: no Froude number discharge limiter
NoLimit(dDischarge, dLimit) == dDischarge

\* "Froude number discharge limiter"; the quotient test is taken across the
\* (positive) depth and celerity, dLimit = depth * celerity * FROUDE_LIMIT
LimitDischarge(dDischarge, dLimit) ==
    IF dDischarge > 0 /\ fabs(dDischarge) > dLimit THEN dLimit
    ELSE IF dDischarge < 0 /\ fabs(dDischarge) > dLimit THEN 0 - dLimit
    ELSE dDischarge

FroudeLimiter(dDischarge, dDepth) ==
    LimitDischarge(dDischarge, dDepth * sqrt(GRAVITY * dDepth) * FROUDE_LIMIT)

\* "Inertial": the discharge before the limiter
InertialQuotient(dManningCoefficient, dLclTimestep, dPreviousDischarge, dDepth, dSlope) ==
    Div((dPreviousDischarge - TimesStep(GRAVITY * dDepth * dSlope, dLclTimestep))
            * FIXED_ONE,
        FIXED_ONE + InertialFriction(dManningCoefficient, dLclTimestep,
                                     dPreviousDischarge, dDepth))

\* the discharge across the interface once dDepth and dSlope are known
InertialFlux(dManningCoefficient, dLclTimestep, dPreviousDischarge, dDepth, dSlope) ==
    IF dDepth < VERY_SMALL THEN 0
    ELSE FroudeLimiter(
            InertialQuotient(dManningCoefficient, dLclTimestep, dPreviousDischarge,
                             dDepth, dSlope),
            dDepth)

calculateInertialFlux(dManningCoefficient, dLclTimestep, dPreviousDischarge, dLevelUpstream, dBedUpstream, dLevelDownstream, dBedDownstream) ==
    InertialFlux(dManningCoefficient, dLclTimestep, dPreviousDischarge,
                 fmax(dLevelDownstream, dLevelUpstream) - fmax(dBedUpstream, dBedDownstream),
                 Div(dLevelDownstream - dLevelUpstream, DOMAIN_DELTAX))

\* dDischarge[ucDirection] of a cell from its own state and the neighbour's
NeighbourDischarge(dManningCoefficient, dLclTimestep, pCell, dBed, pNeig, dNeigBed, ucDirection) ==
    IF ucDirection = DOMAIN_DIR_N
    THEN calculateInertialFlux(dManningCoefficient, dLclTimestep, pNeig.w,
                               pNeig.x, dNeigBed, pCell.x, dBed)
    ELSE IF ucDirection = DOMAIN_DIR_E
    THEN calculateInertialFlux(dManningCoefficient, dLclTimestep, pNeig.z,
                               pNeig.x, dNeigBed, pCell.x, dBed)
    ELSE IF ucDirection = DOMAIN_DIR_S
    THEN calculateInertialFlux(dManningCoefficient, dLclTimestep, pCell.w,
                               pCell.x, dBed, pNeig.x, dNeigBed)
    ELSE calculateInertialFlux(dManningCoefficient, dLclTimestep, pCell.z,
                               pCell.x, dBed, pNeig.x, dNeigBed)

\* dDischarge[ucDirection] of cell c
InertialDischarge(pCellData, dBedData, dManningData, c, ucDirection, dLclTimestep) ==
    NeighbourDischarge(dManningData[c], dLclTimestep, pCellData[c], dBedData[c],
                       pCellData[Neighbour(c, ucDirection)],
                       dBedData[Neighbour(c, ucDirection)], ucDirection)

\* "New max FSL?" of the inertial kernels: no test against -9990
PeakLevel(pCell) ==
    IF pCell.x > pCell.y THEN [pCell EXCEPT !.y = pCell.x] ELSE pCell

\* dDeltaFSL: the rate of rise of the level from the four discharges
InertialDelta(pCellData, dBedData, dManningData, c, dLclTimestep) ==
    Div(InertialDischarge(pCellData, dBedData, dManningData, c, DOMAIN_DIR_E, dLclTimestep)
          - InertialDischarge(pCellData, dBedData, dManningData, c, DOMAIN_DIR_W, dLclTimestep)
          + InertialDischarge(pCellData, dBedData, dManningData, c, DOMAIN_DIR_N, dLclTimestep)
          - InertialDischarge(pCellData, dBedData, dManningData, c, DOMAIN_DIR_S, dLclTimestep),
        DOMAIN_DELTAY)

\* the cell state written: the discharges of the west and south interfaces
\* stored, the level moved, the maximum level raised, the level floored
InertialUpdate(pCell, dBed, qS, qW, dDeltaFSL, dLclTimestep) ==
    FloorLevel(
        PeakLevel([pCell EXCEPT !.z = qW, !.w = qS,
                                !.x = pCell.x + TimesStep(dDeltaFSL, dLclTimestep)]),
        dBed)

\* the cell state the work-item of an inertial kernel writes
InertialCell(pCellData, dBedData, dManningData, c, dLclTimestep) ==
    InertialUpdate(
        pCellData[c], dBedData[c],
        InertialDischarge(pCellData, dBedData, dManningData, c, DOMAIN_DIR_S, dLclTimestep),
        InertialDischarge(pCellData, dBedData, dManningData, c, DOMAIN_DIR_W, dLclTimestep),
        InertialDelta(pCellData, dBedData, dManningData, c, dLclTimestep),
        dLclTimestep)

\* pCellStateDst after ine_cacheDisabled
ineCacheDisabled(pSrc, pDst, dBedData, dManningData, dLclTimestep) ==
    [c \in Cells |->
        IF ~Interior(c) THEN pDst[c]
        ELSE IF dLclTimestep <= 0 THEN pDst[c]
        ELSE IF Disabled(pSrc[c]) THEN pSrc[c]
        ELSE IF AllDry(pSrc, dBedData, c) THEN pDst[c]
        ELSE InertialCell(pSrc, dBedData, dManningData, c, dLclTimestep)]

\* pCellStateDst after ine_cacheEnabled (work-groups of the same shape)
ineCacheEnabled(pSrc, pDst, dBedData, dManningData, dLclTimestep) ==
    [c \in Cells |->
        IF Cached(c) /\ Disabled(pSrc[c]) THEN pSrc[c]
        ELSE IF ~Interior(c) \/ ~CachedInside(c) THEN pDst[c]
        ELSE IF dLclTimestep <= 0 THEN pDst[c]
        ELSE IF AllDry(pSrc, dBedData, c) THEN pDst[c]
        ELSE InertialCell(pSrc, dBedData, dManningData, c, dLclTimestep)]

\* ------------------------------------------------------------------------
\* per_Friction (CLFriction.clc): the cell's discharges and depth are handed
\* to implicitFriction in 1/FIXED_ONE and the result is rounded back
\* ------------------------------------------------------------------------

FrictionCell(pCell, dBed, dManningCoefficient, dLclTimestep) ==
    LET dDepth == pCell.x - dBed
        scaled == [pCell EXCEPT !.z = pCell.z * FIXED_ONE, !.w = pCell.w * FIXED_ONE]
        after == implicitFriction(scaled, dBed, dDepth * FIXED_ONE,
                                  dManningCoefficient, dLclTimestep)
    IN  [pCell EXCEPT !.z = Div(after.z, FIXED_ONE), !.w = Div(after.w, FIXED_ONE)]

\* pCellData after per_Friction
perFriction(pCellData, dBedData, dManningData, dLclTimestep) ==
    [c \in Cells |->
        IF ~Interior(c) THEN pCellData[c]
        ELSE IF dLclTimestep <= 0 THEN pCellData[c]
        ELSE IF pCellData[c].x - dBedData[c] < VERY_SMALL THEN pCellData[c]
        ELSE FrictionCell(pCellData[c], dBedData[c], dManningData[c], dLclTimestep)]

\* ------------------------------------------------------------------------
\* Boundary kernels (CLBoundaries.clc).  A time series is a sequence whose
\* element k + 1 is entry k of the device array.
\* ------------------------------------------------------------------------

BOUNDARY_DEPTH_IGNORE == 0

BOUNDARY_DEPTH_IS_FSL == 1

BOUNDARY_DEPTH_IS_DEPTH == 2

BOUNDARY_DISCHARGE_IGNORE == 0

BOUNDARY_DISCHARGE_IS_DISCHARGE == 1

BOUNDARY_DISCHARGE_IS_VELOCITY == 2

BOUNDARY_DISCHARGE_IS_VOLUME == 3

BOUNDARY_UNIFORM_RAIN_INTENSITY == 0

BOUNDARY_UNIFORM_LOSS_RATE == 1

BOUNDARY_GRIDDED_RAIN_INTENSITY == 0

BOUNDARY_GRIDDED_MASS_FLUX == 2

\* the divisor 3600000.0 of a rate, in the model's units of length
RATE_PER_LENGTH == 36

TSEntry(pTimeseries, ulTimestep) == pTimeseries[ulTimestep + 1]

\* one component of pTSInterp
Interpolate(base, next, dLocalTime, dInterval) ==
    base + Div((next - base) * (dLocalTime % dInterval), dInterval)

\* what the work-item of one relation writes to its cell
CellBoundary(pConfig, pCell, dCellBed, dLocalTime, dLocalTimestep) ==
    LET ulBaseTimestep == dLocalTime \div pConfig.TimeseriesInterval
        pTSBase == TSEntry(pConfig.pTimeseries, ulBaseTimestep)
        pTSNext == TSEntry(pConfig.pTimeseries, ulBaseTimestep + 1)
        y == Interpolate(pTSBase.y, pTSNext.y, dLocalTime, pConfig.TimeseriesInterval)
        z == Interpolate(pTSBase.z, pTSNext.z, dLocalTime, pConfig.TimeseriesInterval)
        w == Interpolate(pTSBase.w, pTSNext.w, dLocalTime, pConfig.TimeseriesInterval)
        volume == pConfig.DefinitionDischarge = BOUNDARY_DISCHARGE_IS_VOLUME
        dDepth == IF volume
                  THEN (IF z < 0 THEN 0 - 1 ELSE 1)
                       * Div(TimesStep(fabs(z), dLocalTimestep), DOMAIN_DELTAX * DOMAIN_DELTAY)
                  ELSE Div(TimesStep(fabs(z), dLocalTimestep), DOMAIN_DELTAY)
                       + Div(TimesStep(fabs(w), dLocalTimestep), DOMAIN_DELTAX)
        dCriticalDepth == IF volume THEN 0
                          ELSE fmax(cbrt(Div(z * z, GRAVITY)), cbrt(Div(w * w, GRAVITY)))
        level == IF pConfig.DefinitionDepth = BOUNDARY_DEPTH_IS_DEPTH THEN dCellBed + y
                 ELSE IF pConfig.DefinitionDepth = BOUNDARY_DEPTH_IS_FSL THEN fmax(dCellBed, y)
                 ELSE IF fabs(z) > VERY_SMALL \/ fabs(w) > VERY_SMALL \/ volume
                 THEN fmax(dCellBed + dCriticalDepth, pCell.x + dDepth)
                 ELSE pCell.x
        discharge(q, old) ==
            IF pConfig.DefinitionDischarge = BOUNDARY_DISCHARGE_IS_DISCHARGE THEN q
            ELSE IF pConfig.DefinitionDischarge = BOUNDARY_DISCHARGE_IS_VELOCITY
            THEN q * (level - dCellBed)
            ELSE old
    IN  [pCell EXCEPT !.x = level, !.z = discharge(z, pCell.z), !.w = discharge(w, pCell.w)]

\* pCellState after bdy_Cell
bdyCell(pConfig, pCellData, dBedData, dLocalTime, dLocalTimestep) ==
    IF dLocalTime >= pConfig.TimeseriesLength \/ dLocalTimestep <= 0 THEN pCellData
    ELSE [c \in Cells |->
            IF \E lRelationID \in 1 .. Len(pConfig.pRelations) :
                   pConfig.pRelations[lRelationID] = c
            THEN CellBoundary(pConfig, pCellData[c], dBedData[c], dLocalTime, dLocalTimestep)
            ELSE pCellData[c]]

\* dRecord.y / 3600000.0 * dLclTimestep, the hydrological timestep in ticks
RateDepth(dRate, dLclTimestep) == Div(dRate * dLclTimestep, RATE_PER_LENGTH * TicksPerSecond)

\* pCellState after bdy_Uniform
bdyUniform(pConfig, pCellData, dBedData, dLclTime, dLclRealTimestep, dLclTimestep) ==
    [c \in Cells |->
        IF ~Interior(c) THEN pCellData[c]
        ELSE IF dLclTimestep < TIMESTEP_HYDROLOGICAL \/ dLclRealTimestep <= 0 THEN pCellData[c]
        ELSE IF dLclTime >= pConfig.TimeseriesLength \/ pCellData[c].y <= NODATA
        THEN pCellData[c]
        ELSE LET dRecord == TSEntry(pConfig.pTimeseries,
                                    dLclTime \div pConfig.TimeseriesInterval)
                 x == pCellData[c].x
             IN  IF pConfig.Definition = BOUNDARY_UNIFORM_RAIN_INTENSITY
                 THEN [pCellData[c] EXCEPT !.x = x + RateDepth(dRecord.y, dLclTimestep)]
                 ELSE IF pConfig.Definition = BOUNDARY_UNIFORM_LOSS_RATE
                 THEN [pCellData[c] EXCEPT
                          !.x = fmax(dBedData[c], x - RateDepth(dRecord.y, dLclTimestep))]
                 ELSE pCellData[c]]

\* pTimeseries[ulBdyCell]; a read past the end of the array yields dStray
GridRate(pValues, ulBdyCell, dStray) ==
    IF ulBdyCell + 1 > Len(pValues) THEN dStray ELSE pValues[ulBdyCell + 1]

\* ulColumn / ulRow of a cell index along one axis
GridIndex(lIdx, dDelta, dOffset, dResolution) == (lIdx * dDelta - dOffset) \div dResolution

\* ulBdyCell within one grid
GridCell(pConfig, c) ==
    pConfig.GridCols
        * GridIndex(CellY(c), DOMAIN_DELTAY, pConfig.GridOffsetY, pConfig.GridResolution)
    + GridIndex(CellX(c), DOMAIN_DELTAX, pConfig.GridOffsetX, pConfig.GridResolution)

\* ulTimestep of bdy_Gridded
GridTimestep(pConfig, dLclTime) ==
    LET ulTimestep == dLclTime \div pConfig.TimeseriesInterval
    IN  IF ulTimestep >= pConfig.TimeseriesEntries THEN pConfig.TimeseriesEntries
        ELSE ulTimestep

\* "Apply the value..." of the gridded kernels
GridApply(pConfig, pCell, dRate, dLclTimestep) ==
    IF pConfig.Definition = BOUNDARY_GRIDDED_RAIN_INTENSITY
    THEN [pCell EXCEPT !.x = pCell.x + RateDepth(dRate, dLclTimestep)]
    ELSE IF pConfig.Definition = BOUNDARY_GRIDDED_MASS_FLUX
    THEN [pCell EXCEPT
             !.x = pCell.x + TimesStep(Div(dRate, DOMAIN_DELTAX * DOMAIN_DELTAY), dLclTimestep)]
    ELSE pCell

\* pCellState after bdy_Gridded
bdyGridded(pConfig, pCellData, dLclTime, dLclTimestep, dStray) ==
    [c \in Cells |->
        IF ~Interior(c) THEN pCellData[c]
        ELSE IF Disabled(pCellData[c]) THEN pCellData[c]
        ELSE IF dLclTimestep < TIMESTEP_HYDROLOGICAL THEN pCellData[c]
        ELSE GridApply(pConfig, pCellData[c],
                       GridRate(pConfig.pTimeseries,
                                pConfig.GridRows * pConfig.GridCols
                                    * GridTimestep(pConfig, dLclTime)
                                + GridCell(pConfig, c),
                                dStray),
                       dLclTimestep)]

\* pCellState after bdy_StreamingGridded
bdyStreamingGridded(pConfig, pCellData, dLclTimestep, dStray) ==
    [c \in Cells |->
        IF ~Interior(c) THEN pCellData[c]
        ELSE IF Disabled(pCellData[c]) THEN pCellData[c]
        ELSE IF dLclTimestep < TIMESTEP_HYDROLOGICAL THEN pCellData[c]
        ELSE GridApply(pConfig, pCellData[c],
                       GridRate(pConfig.pValues, GridCell(pConfig, c), dStray),
                       dLclTimestep)]

\* dInitialFrictionHeadLoss of bdy_SimplePipe
PipeHead(pStartData, pEndData, dInvertStart, dInvertEnd) ==
    IF pStartData.x - dInvertStart > 0
    THEN (dInvertStart + Div(fmax(dInvertStart, pStartData.x) - dInvertStart, 2))
         - (dInvertEnd + Div(fmax(dInvertEnd, pEndData.x) - dInvertEnd, 2))
    ELSE 0

\* the pipe carries water: none of the early returns is taken
PipeActive(pConfig, pCellData, dBedData, dLocalTimestep) ==
    LET ulIdxStart == getCellID(pConfig.uiStartCellX, pConfig.uiStartCellY)
        ulIdxEnd == getCellID(pConfig.uiEndCellX, pConfig.uiEndCellY)
        dInvertStart == IF pConfig.invertStart <= NODATA THEN dBedData[ulIdxStart]
                        ELSE pConfig.invertStart
        dInvertEnd == IF pConfig.invertEnd <= NODATA THEN dBedData[ulIdxEnd]
                      ELSE pConfig.invertEnd
    IN  /\ dLocalTimestep > 0
        /\ ~(pCellData[ulIdxStart].x - dInvertStart < VERY_SMALL
             \/ dInvertStart < dBedData[ulIdxStart])
        /\ dBedData[ulIdxStart] > NODATA
        /\ dBedData[ulIdxEnd] > NODATA
        /\ PipeHead(pCellData[ulIdxStart], pCellData[ulIdxEnd], dInvertStart, dInvertEnd) > 0

\* not a number: what sqrt(-1.0) returns, a value no level or discharge takes
NaN == 0 - (INFINITY + INFINITY)

\* the cap on the iterations of the Darcy-Weisbach loop
maxIterations == 5000

\* the tolerance of the loop, the unit dError is counted in
PIPE_TOLERANCE == 1

\* the Darcy-Weisbach loop of bdy_SimplePipe has ended without an answer:
\* the cap is reached or the error is still above the tolerance
PipeFailed(uiIterations, dError) ==
    uiIterations >= maxIterations \/ fabs(dError) > PIPE_TOLERANCE

\* dPipeDischarge as the failure test leaves it
PipeForceNaN(dPipeDischarge, uiIterations, dError) ==
    IF PipeFailed(uiIterations, dError) THEN NaN ELSE dPipeDischarge

\* dPipeDischarge behind the failure test: the flow of the last velocity
\* estimate, assigned whatever the test has left
PipeDischarge(dForced, dVelocityFlow) == dVelocityFlow

\* pCellState after bdy_SimplePipe; dPipeDischarge is what the Darcy-Weisbach
\* iteration arrives at
bdySimplePipe(pConfig, pCellData, dBedData, dLocalTimestep, dPipeDischarge) ==
    LET ulIdxStart == getCellID(pConfig.uiStartCellX, pConfig.uiStartCellY)
        ulIdxEnd == getCellID(pConfig.uiEndCellX, pConfig.uiEndCellY)
        pStartData == pCellData[ulIdxStart]
        pEndData == pCellData[ulIdxEnd]
        dStartBed == dBedData[ulIdxStart]
        dEndBed == dBedData[ulIdxEnd]
        dVolume == Div(TimesStep(dPipeDischarge, dLocalTimestep),
                       DOMAIN_DELTAX * DOMAIN_DELTAY)
        endStill == IF pEndData.x < dEndBed + VERY_SMALL
                    THEN [pEndData EXCEPT !.z = 0, !.w = 0] ELSE pEndData
        endAfter == [endStill EXCEPT !.x = fmax(dEndBed, pEndData.x) + dVolume]
        startLevel == fmax(dStartBed, pStartData.x - dVolume)
        startAfter == IF startLevel < dStartBed + VERY_SMALL
                      THEN [pStartData EXCEPT !.x = startLevel, !.z = 0, !.w = 0]
                      ELSE [pStartData EXCEPT !.x = startLevel]
    IN  IF ~PipeActive(pConfig, pCellData, dBedData, dLocalTimestep) THEN pCellData
        ELSE [c \in Cells |-> IF c = ulIdxEnd THEN endAfter
                              ELSE IF c = ulIdxStart THEN startAfter
                              ELSE pCellData[c]]

\* ------------------------------------------------------------------------
\* Actions of the timestep block
\* ------------------------------------------------------------------------


MaxLaunch == 5

MaxSteps == 5

NoCall == [called |-> FALSE]

\* no streaming boundary has been constructed
NoStream == [made |-> FALSE]

\* steps the controller has counted
StepsDone == uiBatchSuccessful + uiBatchSkipped

\* The host queues kernel `name`.  With an empty hostQueue the kernels of
\* the timestep block are launched in any order; otherwise the launches of
\* a step follow hostQueue and the next step starts over.
Queue(name) ==
    /\ IF Len(hostQueue) = 0
       THEN /\ nLaunch < MaxLaunch
            /\ stage' = stage
       ELSE /\ stage > 1 \/ StepsDone < MaxSteps
            /\ hostQueue[stage].kernel = name
            /\ stage' = (stage % Len(hostQueue)) + 1
    /\ UNCHANGED hostQueue

Hist(name) ==
    /\ Queue(name)
    /\ UNCHANGED frVars
    /\ nLaunch' = nLaunch + 1
    /\ lastKernel' = name
    /\ prevSrc' = pCellStateSrc
    /\ prevDst' = pCellStateDst
    /\ IF name = "bdy_SimplePipe" THEN TRUE ELSE pipeRun' = NoCall

tst_Reduce ==
    /\ pReductionData' = ReduceAll(pCellStateSrc, dBedElevation)
    /\ UNCHANGED <<gridVars, timeVars>>
    /\ Hist("tst_Reduce")

tst_Advance_Normal ==
    /\ LET dLclTimestep == fmax(0, dTimestep)
           dLclTime == dTime + dLclTimestep
       IN  /\ dTime' = dLclTime
           /\ dBatchTimesteps' = dBatchTimesteps + dLclTimestep
           /\ uiBatchSuccessful' = uiBatchSuccessful + (IF dLclTimestep > 0 THEN 1 ELSE 0)
           /\ uiBatchSkipped' = uiBatchSkipped + (IF dLclTimestep <= 0 THEN 1 ELSE 0)
           /\ dTimeHydrological' = HydroClock(dTimeHydrological, dLclTimestep)
           /\ dTimestep' = AdvanceTimestep(dLclTime, pReductionData, dTimeSync)
    /\ UNCHANGED <<gridVars, pReductionData, dTimeSync>>
    /\ Hist("tst_Advance_Normal")

tst_ResetCounters ==
    /\ uiBatchSuccessful' = 0
    /\ uiBatchSkipped' = 0
    /\ dBatchTimesteps' = 0
    /\ UNCHANGED <<gridVars, pReductionData, dTime, dTimestep,
                   dTimeHydrological, dTimeSync>>
    /\ Hist("tst_ResetCounters")

tst_UpdateTimestep ==
    /\ LET dLclOriginalTimestep == fabs(dTimestep)
           dLclTimestep == fmin(DynamicTimestep(dTime, pReductionData),
                                dLclOriginalTimestep)
       IN  /\ dBatchTimesteps' = dBatchTimesteps - dLclOriginalTimestep + dLclTimestep
           /\ dTimestep' = UpdateTimestep(dTime, dLclOriginalTimestep,
                                          pReductionData, dTimeSync)
    /\ UNCHANGED <<gridVars, pReductionData, dTime, dTimeHydrological,
                   dTimeSync, uiBatchSuccessful, uiBatchSkipped>>
    /\ Hist("tst_UpdateTimestep")

\* the host moves the synchronisation point forward to a later one
SyncPoints == {30, 100, 130, 6010, 7600}

\* and the synchronisation points of a run that is stepped through
StepSyncPoints == {10, 30, 6010}

HostRaiseSync ==
    /\ Len(hostQueue) > 0 => stage = 1 /\ dTimestep < 0
    /\ \E s \in (IF Len(hostQueue) = 0 THEN SyncPoints ELSE StepSyncPoints) :
          /\ s > dTimeSync
          /\ dTimeSync' = s
    /\ UNCHANGED <<gridVars, pReductionData, dTime, dTimestep, dTimeHydrological,
                   dBatchTimesteps, uiBatchSuccessful, uiBatchSkipped>>
    /\ UNCHANGED <<histVars, frVars, hostVars>>

\* ------------------------------------------------------------------------
\* Specification of the timestep block alone: a pool of uniform depth and
\* discharge, any order of reduction, controller kernels and host updates
\* ------------------------------------------------------------------------

\* <<depth, q_x>> of the pool
TimePools == {<<0, 0>>, <<3, 0>>, <<10, 0>>, <<3, 150>>, <<3, 30000>>}

StartTimes == {0, 95, 5995}

StartTimesteps == {0, 2, 5}

FlatBed == [c \in Cells |-> 0]

Pool(h, q) == [c \in Cells |-> Cell4(h, h, q, 0)]

InitTime ==
    /\ \E p \in TimePools :
          /\ pCellStateSrc = Pool(p[1], p[2])
          /\ pCellStateDst = Pool(p[1], p[2])
    /\ dBedElevation = FlatBed
    /\ dManningCoef = [c \in Cells |-> 0]
    /\ pReductionData = [g \in 0 .. (TIMESTEP_WORKERS - 1) |-> 0]
    /\ dTime \in StartTimes
    /\ dTimeSync = CHOOSE s \in SyncPoints :
                       s >= dTime /\ \A r \in SyncPoints : r >= dTime => s <= r
    /\ dTimestep \in StartTimesteps
    /\ dTimeHydrological = 0
    /\ dBatchTimesteps = 0
    /\ uiBatchSuccessful = 0
    /\ uiBatchSkipped = 0
    /\ lastKernel = "init"
    /\ nLaunch = 0
    /\ frArgs = NoCall
    /\ frResult = NoCall
    /\ pipeRun = NoCall
    /\ streaming = NoStream
    /\ prevSrc = pCellStateSrc
    /\ prevDst = pCellStateDst
    /\ hostQueue = <<>>
    /\ stage = 0

NextTime ==
    \/ tst_Reduce
    \/ tst_Advance_Normal
    \/ tst_UpdateTimestep
    \/ tst_ResetCounters
    \/ HostRaiseSync

SpecTime == InitTime /\ [][NextTime]_vars

ControllerRan == lastKernel \in {"tst_Advance_Normal", "tst_UpdateTimestep"}

\* dt <= C * dx / s_max, the quotients rounded as the arithmetic rounds
WithinCfl(dt, dx, W) ==
    dt <= Div(COURANT_NUM * Div(dx * TicksPerSecond, MaxSpeed(W)), COURANT_DEN)

\* C9 as stated: after each controller step the committed timestep is at
\* most C * min(dx, dy) / s_max, or it is <= 0, for every s_max.
C9_CflAlways ==
    ControllerRan =>
        \/ dTimestep <= 0
        \/ WithinCfl(dTimestep, fmin(DOMAIN_DELTAX, DOMAIN_DELTAY), pReductionData)

\* C9 amended: after each controller step the committed timestep is <= 0,
\* or at most C * dx / s_max, or at most the minimum timestep to which the
\* controller raises a smaller positive value.
C9_CflOrMinimum ==
    ControllerRan =>
        \/ dTimestep <= 0
        \/ dTimestep <= TIMESTEP_MINIMUM
        \/ WithinCfl(dTimestep, DOMAIN_DELTAX, pReductionData)

\* the minimum was imposed against the CFL limit of a fast flow
C9_Witness ==
    /\ lastKernel = "tst_Advance_Normal"
    /\ dTime < TIMESTEP_START_MINIMUM_DURATION
    /\ dTimestep = TIMESTEP_MINIMUM
    /\ ~WithinCfl(dTimestep, DOMAIN_DELTAX, pReductionData)

\* C10: the time never passes the sync time and the committed timestep
\* never exceeds what is left to the sync time.
C10_TimeWithinSync ==
    /\ dTime <= dTimeSync
    /\ dTimestep <= dTimeSync - dTime

\* the controller cut a larger timestep down to the remaining time
C10_Witness ==
    /\ lastKernel = "tst_Advance_Normal"
    /\ dTimestep > 0
    /\ dTimestep = dTimeSync - dTime
    /\ dTimestep < DynamicTimestep(dTime, pReductionData)

\* ------------------------------------------------------------------------
\* Specification of implicitFriction alone: one call on arguments with
\* h >= VERY_SMALL, n >= 0, dt > 0
\* ------------------------------------------------------------------------

FrictionDischarges == {-200, -25, 0, 25, 200}

FrictionDepths == {10, 100, 300}

FrictionMannings == {0, 3, 50}

FrictionTimesteps == {1, 7, 100, 1500}

InitFriction ==
    /\ pCellStateSrc = Pool(0, 0)
    /\ pCellStateDst = Pool(0, 0)
    /\ dBedElevation = FlatBed
    /\ dManningCoef = [c \in Cells |-> 0]
    /\ pReductionData = [g \in 0 .. (TIMESTEP_WORKERS - 1) |-> 0]
    /\ dTime = 0
    /\ dTimeSync = 0
    /\ dTimestep = 0
    /\ dTimeHydrological = 0
    /\ dBatchTimesteps = 0
    /\ uiBatchSuccessful = 0
    /\ uiBatchSkipped = 0
    /\ lastKernel = "init"
    /\ nLaunch = 0
    /\ prevSrc = pCellStateSrc
    /\ prevDst = pCellStateDst
    /\ hostQueue = <<>>
    /\ stage = 0
    /\ \E z \in FrictionDischarges, w \in FrictionDischarges,
          h \in FrictionDepths, n \in FrictionMannings, dt \in FrictionTimesteps :
          frArgs = [called |-> TRUE,
                    pCellState |-> Cell4(h, h, z, w),
                    dBedElevation |-> 0,
                    dDepth |-> h,
                    dManningCoefficient |-> n,
                    dLclTimestep |-> dt]
    /\ frResult = NoCall
    /\ pipeRun = NoCall
    /\ streaming = NoStream

CallImplicitFriction ==
    /\ frArgs.called
    /\ ~frResult.called
    /\ frResult' = [called |-> TRUE,
                    pCellState |-> implicitFriction(frArgs.pCellState,
                                                    frArgs.dBedElevation,
                                                    frArgs.dDepth,
                                                    frArgs.dManningCoefficient,
                                                    frArgs.dLclTimestep)]
    /\ UNCHANGED <<gridVars, pReductionData, timeVars, histVars, hostVars, frArgs, streaming>>

NextFriction == CallImplicitFriction

SpecFriction == InitFriction /\ [][NextFriction]_vars

\* a returned component neither larger in magnitude than, nor of the sign
\* opposite to, the component passed in
Damped(qIn, qOut) == fabs(qOut) <= fabs(qIn) /\ qIn * qOut >= 0

StrayRates == {-720, 0}

\* discharges the pipe iteration may arrive at
PipeDischarges == {10, 30}

\* how the pipe iteration may end: within the cap and the tolerance, at the
\* cap, or at the cap with the error still above the tolerance
PipeEndings ==
    {[uiIterations |-> 3, dError |-> 0],
     [uiIterations |-> maxIterations, dError |-> 0],
     [uiIterations |-> maxIterations, dError |-> -2]}

\* the configuration of the launch at hand
LaunchConfig == hostQueue[stage].pConfig

bdy_Cell ==
    /\ Len(hostQueue) > 0
    /\ Hist("bdy_Cell")
    /\ pCellStateSrc' = bdyCell(LaunchConfig, pCellStateSrc, dBedElevation, dTime, dTimestep)
    /\ UNCHANGED <<pCellStateDst, dBedElevation, dManningCoef, pReductionData, timeVars>>

bdy_Uniform ==
    /\ Len(hostQueue) > 0
    /\ Hist("bdy_Uniform")
    /\ pCellStateSrc' = bdyUniform(LaunchConfig, pCellStateSrc, dBedElevation,
                                   dTime, dTimestep, dTimeHydrological)
    /\ UNCHANGED <<pCellStateDst, dBedElevation, dManningCoef, pReductionData, timeVars>>

bdy_Gridded ==
    /\ Len(hostQueue) > 0
    /\ Hist("bdy_Gridded")
    /\ \E dStray \in StrayRates :
          pCellStateSrc' = bdyGridded(LaunchConfig, pCellStateSrc, dTime,
                                      dTimeHydrological, dStray)
    /\ UNCHANGED <<pCellStateDst, dBedElevation, dManningCoef, pReductionData, timeVars>>

bdy_StreamingGridded ==
    /\ Len(hostQueue) > 0
    /\ Hist("bdy_StreamingGridded")
    /\ \E dStray \in StrayRates :
          pCellStateSrc' = bdyStreamingGridded(LaunchConfig, pCellStateSrc,
                                               dTimeHydrological, dStray)
    /\ UNCHANGED <<pCellStateDst, dBedElevation, dManningCoef, pReductionData, timeVars>>

bdy_SimplePipe ==
    /\ Len(hostQueue) > 0
    /\ Hist("bdy_SimplePipe")
    /\ \E dVelocityFlow \in PipeDischarges, end \in PipeEndings :
          /\ pCellStateSrc' = bdySimplePipe(LaunchConfig, pCellStateSrc, dBedElevation, dTimestep,
                                            PipeDischarge(PipeForceNaN(0, end.uiIterations, end.dError),
                                                          dVelocityFlow))
          /\ pipeRun' = IF PipeActive(LaunchConfig, pCellStateSrc, dBedElevation, dTimestep)
                        THEN [called |-> TRUE, uiIterations |-> end.uiIterations,
                              dError |-> end.dError]
                        ELSE NoCall
    /\ UNCHANGED <<pCellStateDst, dBedElevation, dManningCoef, pReductionData, timeVars>>

gts_cacheDisabled ==
    /\ Hist("gts_cacheDisabled")
    /\ pCellStateDst' = gtsCacheDisabled(pCellStateSrc, pCellStateDst, dBedElevation, dTimestep)
    /\ UNCHANGED <<pCellStateSrc, dBedElevation, dManningCoef, pReductionData, timeVars>>

gts_cacheEnabled ==
    /\ Hist("gts_cacheEnabled")
    /\ pCellStateDst' = gtsCacheEnabled(pCellStateSrc, pCellStateDst, dBedElevation, dTimestep)
    /\ UNCHANGED <<pCellStateSrc, dBedElevation, dManningCoef, pReductionData, timeVars>>

ine_cacheDisabled ==
    /\ Hist("ine_cacheDisabled")
    /\ pCellStateDst' = ineCacheDisabled(pCellStateSrc, pCellStateDst, dBedElevation,
                                         dManningCoef, dTimestep)
    /\ UNCHANGED <<pCellStateSrc, dBedElevation, dManningCoef, pReductionData, timeVars>>

ine_cacheEnabled ==
    /\ Hist("ine_cacheEnabled")
    /\ pCellStateDst' = ineCacheEnabled(pCellStateSrc, pCellStateDst, dBedElevation,
                                        dManningCoef, dTimestep)
    /\ UNCHANGED <<pCellStateSrc, dBedElevation, dManningCoef, pReductionData, timeVars>>

\* the standalone friction kernel works on the buffer the scheme has written
per_Friction ==
    /\ Hist("per_Friction")
    /\ pCellStateDst' = perFriction(pCellStateDst, dBedElevation, dManningCoef, dTimestep)
    /\ UNCHANGED <<pCellStateSrc, dBedElevation, dManningCoef, pReductionData, timeVars>>

\* the host exchanges source and destination
HostSwap ==
    /\ Hist("HostSwap")
    /\ pCellStateSrc' = pCellStateDst
    /\ pCellStateDst' = pCellStateSrc
    /\ UNCHANGED <<dBedElevation, dManningCoef, pReductionData, timeVars>>

SchemeKernels == {"gts_cacheDisabled", "gts_cacheEnabled",
                  "ine_cacheDisabled", "ine_cacheEnabled"}

NoConfig == [Definition |-> 0]

Launch(name) == [kernel |-> name, pConfig |-> NoConfig]

BoundaryLaunch(name, pConfig) == [kernel |-> name, pConfig |-> pConfig]

\* boundaries -> reduction -> timestep -> scheme -> friction (standalone),
\* then the exchange of the buffers
StepQueue(boundaries, scheme, friction) ==
    boundaries
    \o <<Launch("tst_Reduce"), Launch("tst_Advance_Normal"), Launch(scheme)>>
    \o (IF friction THEN <<Launch("per_Friction")>> ELSE <<>>)
    \o <<Launch("HostSwap")>>

\* ------------------------------------------------------------------------
\* Scenarios: bed, initial levels, Manning's n and the boundaries of a run
\* ------------------------------------------------------------------------

WallBed == 20

\* a cell at rest at the given level
Still(level) == Cell4(level, level, 0, 0)

\* interior bed as given, the rim a dry wall
Basin(dBedData) == [c \in Cells |-> IF Interior(c) THEN dBedData[c] ELSE WallBed]

\* a stage hydrograph imposed on rim cell (2, 0)
StageSeries ==
    [pRelations |-> <<getCellID(2, 0)>>,
     pTimeseries |-> [k \in 1 .. 11 |-> Cell4((k - 1) * 10, 3 + k, 0, 0)],
     TimeseriesInterval |-> 10,
     TimeseriesLength |-> 100,
     DefinitionDepth |-> BOUNDARY_DEPTH_IS_FSL,
     DefinitionDischarge |-> BOUNDARY_DISCHARGE_IGNORE]

\* an inflow of 20 per unit width through rim cell (0, 2)
FlowSeries ==
    [pRelations |-> <<getCellID(0, 2)>>,
     pTimeseries |-> [k \in 1 .. 11 |-> Cell4((k - 1) * 10, 0, 20, 0)],
     TimeseriesInterval |-> 10,
     TimeseriesLength |-> 100,
     DefinitionDepth |-> BOUNDARY_DEPTH_IGNORE,
     DefinitionDischarge |-> BOUNDARY_DISCHARGE_IS_DISCHARGE]

\* a depth of 4 and a velocity of 1 imposed on cells (2, 0) and (2, 1)
DepthSeries ==
    [pRelations |-> <<getCellID(2, 0), getCellID(2, 1)>>,
     pTimeseries |-> [k \in 1 .. 11 |-> Cell4((k - 1) * 10, 4, 1, 0)],
     TimeseriesInterval |-> 10,
     TimeseriesLength |-> 100,
     DefinitionDepth |-> BOUNDARY_DEPTH_IS_DEPTH,
     DefinitionDischarge |-> BOUNDARY_DISCHARGE_IS_VELOCITY]

\* a surge of volume into cell (2, 2), then out of it
VolumeSeries ==
    [pRelations |-> <<getCellID(2, 2)>>,
     pTimeseries |-> [k \in 1 .. 11 |-> Cell4((k - 1) * 10, 0, 50 - 30 * k, 0)],
     TimeseriesInterval |-> 10,
     TimeseriesLength |-> 100,
     DefinitionDepth |-> BOUNDARY_DEPTH_IGNORE,
     DefinitionDischarge |-> BOUNDARY_DISCHARGE_IS_VOLUME]

UniformSeries(definition, dRate) ==
    [pTimeseries |-> [k \in 1 .. 5 |-> [x |-> (k - 1) * 20, y |-> dRate]],
     TimeseriesEntries |-> 5,
     TimeseriesInterval |-> 20,
     TimeseriesLength |-> 100,
     Definition |-> definition]

\* a grid of 3 x 3 cells of side 2 over the domain
GriddedSeries(definition, entries, dRate) ==
    [pTimeseries |-> [k \in 1 .. (9 * entries) |-> dRate * (1 + (k % 2))],
     pValues |-> [k \in 1 .. 9 |-> dRate * (1 + (k % 2))],
     TimeseriesInterval |-> 20,
     GridResolution |-> 2,
     GridOffsetX |-> 0,
     GridOffsetY |-> 0,
     TimeseriesEntries |-> entries,
     Definition |-> definition,
     GridRows |-> 3,
     GridCols |-> 3]

\* a pipe from cell (sx, sy) to cell (ex, ey) laid on the bed
PipeBetween(sx, sy, ex, ey) ==
    [uiStartCellX |-> sx, uiStartCellY |-> sy, uiEndCellX |-> ex, uiEndCellY |-> ey,
     invertStart |-> NODATA, invertEnd |-> NODATA]

ScenarioNames == {"dam", "pile", "inflow", "masked", "storm", "drought", "pipe"}

ScenarioBed(name) ==
    CASE name = "dam" -> Basin(FlatBed)
      [] name = "inflow" -> FlatBed
      [] name = "masked" ->
            [c \in Cells |-> IF ~Interior(c) \/ c = getCellID(2, 2) THEN NODATA ELSE 0]
      [] name = "storm" -> Basin([c \in Cells |-> IF c = getCellID(2, 2) THEN 1 ELSE 0])
      [] name = "drought" -> Basin(FlatBed)
      [] name = "pipe" -> Basin(FlatBed)
      [] name = "pile" -> Basin(FlatBed)

ScenarioState(name) ==
    LET dry == [c \in Cells |-> Still(ScenarioBed(name)[c])]
    IN  CASE name = "dam" ->
                [c \in Cells |-> IF Interior(c) /\ CellX(c) = 1 THEN Still(5) ELSE dry[c]]
          [] name = "inflow" -> [c \in Cells |-> Still(3)]
          [] name = "masked" ->
                [c \in Cells |-> IF ScenarioBed(name)[c] = NODATA THEN dry[c] ELSE Still(2)]
          [] name = "storm" -> dry
          [] name = "drought" -> [c \in Cells |-> IF Interior(c) THEN Still(1) ELSE dry[c]]
          [] name = "pipe" ->
                [c \in Cells |-> IF c = getCellID(1, 1) THEN Still(5) ELSE dry[c]]
          [] name = "pile" ->
                [c \in Cells |-> IF c = getCellID(2, 2) THEN Still(3) ELSE dry[c]]

ScenarioManning(name) ==
    [c \in Cells |-> IF name = "inflow" THEN 3 ELSE 0]

ScenarioBoundaries(name) ==
    CASE name = "dam" -> <<>>
      [] name = "inflow" -> <<BoundaryLaunch("bdy_Cell", StageSeries),
                              BoundaryLaunch("bdy_Cell", FlowSeries)>>
      [] name = "masked" ->
            <<BoundaryLaunch("bdy_Cell", DepthSeries),
              BoundaryLaunch("bdy_Uniform",
                             UniformSeries(BOUNDARY_UNIFORM_RAIN_INTENSITY, 144)),
              BoundaryLaunch("bdy_SimplePipe", PipeBetween(1, 1, 2, 2))>>
      [] name = "storm" ->
            <<BoundaryLaunch("bdy_Uniform",
                             UniformSeries(BOUNDARY_UNIFORM_RAIN_INTENSITY, 288)),
              BoundaryLaunch("bdy_Gridded",
                             GriddedSeries(BOUNDARY_GRIDDED_RAIN_INTENSITY, 5, 144)),
              BoundaryLaunch("bdy_StreamingGridded",
                             GriddedSeries(BOUNDARY_GRIDDED_MASS_FLUX, 1, 5)),
              BoundaryLaunch("bdy_Uniform",
                             UniformSeries(BOUNDARY_UNIFORM_LOSS_RATE, 144))>>
      [] name = "drought" ->
            <<BoundaryLaunch("bdy_Uniform",
                             UniformSeries(BOUNDARY_UNIFORM_RAIN_INTENSITY, 0 - 720)),
              BoundaryLaunch("bdy_Gridded",
                             GriddedSeries(BOUNDARY_GRIDDED_RAIN_INTENSITY, 1, 144)),
              BoundaryLaunch("bdy_Cell", VolumeSeries)>>
      [] name = "pipe" -> <<BoundaryLaunch("bdy_SimplePipe", PipeBetween(1, 1, 3, 3))>>
      [] name = "pile" -> <<>>

\* ------------------------------------------------------------------------
\* Specification of whole steps: a scenario, one of the four scheme kernels,
\* with or without the standalone friction kernel
\* ------------------------------------------------------------------------

\* the state of a run before its first step: both buffers hold the initial
\* cell states
InitGrid(pCellData, dBedData, dManningData, boundaries, scheme, friction, dLclSyncTime) ==
    /\ pCellStateSrc = pCellData
    /\ pCellStateDst = pCellData
    /\ dBedElevation = dBedData
    /\ dManningCoef = dManningData
    /\ pReductionData = [g \in 0 .. (TIMESTEP_WORKERS - 1) |-> 0]
    /\ dTime = 0
    /\ dTimeSync = dLclSyncTime
    /\ dTimestep = 0
    /\ dTimeHydrological = 0
    /\ dBatchTimesteps = 0
    /\ uiBatchSuccessful = 0
    /\ uiBatchSkipped = 0
    /\ lastKernel = "init"
    /\ nLaunch = 0
    /\ frArgs = NoCall
    /\ frResult = NoCall
    /\ pipeRun = NoCall
    /\ streaming = NoStream
    /\ prevSrc = pCellData
    /\ prevDst = pCellData
    /\ hostQueue = StepQueue(boundaries, scheme, friction)
    /\ stage = 1

InitRun(name, scheme, friction, dLclSyncTime) ==
    InitGrid(ScenarioState(name), ScenarioBed(name), ScenarioManning(name),
             ScenarioBoundaries(name), scheme, friction, dLclSyncTime)

InitStep ==
    \E name \in ScenarioNames, scheme \in SchemeKernels, friction \in BOOLEAN,
       dLclSyncTime \in {10, 6010} :
        InitRun(name, scheme, friction, dLclSyncTime)

NextStep ==
    \/ bdy_Cell
    \/ bdy_Uniform
    \/ bdy_Gridded
    \/ bdy_StreamingGridded
    \/ bdy_SimplePipe
    \/ tst_Reduce
    \/ tst_Advance_Normal
    \/ gts_cacheDisabled
    \/ gts_cacheEnabled
    \/ ine_cacheDisabled
    \/ ine_cacheEnabled
    \/ per_Friction
    \/ HostSwap
    \/ HostRaiseSync

SpecStep == InitStep /\ [][NextStep]_vars

\* ------------------------------------------------------------------------
\* Claims about whole steps
\* ------------------------------------------------------------------------

BoundaryKernels == {"bdy_Cell", "bdy_Uniform", "bdy_Gridded", "bdy_StreamingGridded",
                    "bdy_SimplePipe"}

\* the host has just exchanged the buffers: a step has ended
Swapped == lastKernel = "HostSwap"

\* C1: a step whose timestep is <= 0, once the host has exchanged the
\* buffers, leaves every cell of the current buffer as it was in the buffer
\* that was current during the step, for each of the four scheme kernels
C1_IdleStepKeepsState ==
    (Swapped /\ dTimestep <= 0) =>
        \A c \in Cells : pCellStateSrc[c] = prevSrc[c]

\* C2: whichever kernel or exchange ran last, a cell that was disabled in
\* the current buffer before it holds the same four values after it
C2_DisabledCellsKept ==
    \A c \in Cells : Disabled(prevSrc[c]) => pCellStateSrc[c] = prevSrc[c]

\* C3: every cell the last kernel wrote (a boundary kernel in the current
\* buffer, a scheme kernel or per_Friction in the destination buffer) has
\* its level at or above its bed
C3_LevelAboveBed ==
    /\ lastKernel \in BoundaryKernels =>
          \A c \in Cells : pCellStateSrc[c] # prevSrc[c]
                              => pCellStateSrc[c].x >= dBedElevation[c]
    /\ lastKernel \in SchemeKernels \cup {"per_Friction"} =>
          \A c \in Cells : pCellStateDst[c] # prevDst[c]
                              => pCellStateDst[c].x >= dBedElevation[c]

\* C4: at the end of every step each enabled cell of the current buffer has
\* its maximum level at or above its level
C4_MaxAboveLevel ==
    Swapped =>
        \A c \in Cells : ~Disabled(pCellStateSrc[c])
                            => pCellStateSrc[c].y >= pCellStateSrc[c].x

\* C5: at the end of every step the maximum level of each enabled cell of
\* the current buffer is not below the one the cell had in the buffer that
\* was current before
C5_MaxNeverDecreases ==
    Swapped =>
        \A c \in Cells : ~Disabled(pCellStateSrc[c])
                            => pCellStateSrc[c].y >= prevSrc[c].y

\* ------------------------------------------------------------------------
\* Specification of lakes at rest stepped by the Godunov-type kernels
\* ------------------------------------------------------------------------

LakeBeds == {"flat", "slope", "island", "shoal"}

LakeBed(name) ==
    CASE name = "flat" -> FlatBed
      [] name = "slope" -> [c \in Cells |-> CellX(c)]
      [] name = "island" -> [c \in Cells |-> IF c = getCellID(2, 2) THEN 6 ELSE 0]
      [] name = "shoal" -> [c \in Cells |-> (CellX(c) * CellY(c) + CellY(c)) % 5]

LakeLevels == {2, 3, 5}

\* the lake of the given level over the bed: the level where it is wet, the
\* bed where the bed emerges
Lake(dBedData, level) == [c \in Cells |-> Still(fmax(level, dBedData[c]))]

GodunovKernels == {"gts_cacheDisabled", "gts_cacheEnabled"}

InitLake ==
    \E name \in LakeBeds, level \in LakeLevels, scheme \in GodunovKernels,
       dLclSyncTime \in {10, 6010} :
        InitGrid(Lake(LakeBed(name), level), LakeBed(name), FlatBed, <<>>, scheme,
                 FALSE, dLclSyncTime)

NextLake ==
    \/ tst_Reduce
    \/ tst_Advance_Normal
    \/ gts_cacheDisabled
    \/ gts_cacheEnabled
    \/ HostSwap
    \/ HostRaiseSync

SpecLake == InitLake /\ [][NextLake]_vars

\* q_x = q_y = 0, Manning's n = 0 and one level wherever it is wet
AtRest(pCellData) ==
    /\ \A c \in Cells : dManningCoef[c] = 0
    /\ \E level \in LakeLevels :
          \A c \in Cells : pCellData[c] = Still(fmax(level, dBedElevation[c]))

\* C6: a Godunov-type kernel run with a timestep > 0 on a lake at rest
\* computes zero change values for every interior cell and writes the cell
\* as it was; after the exchange the current buffer is the lake again
C6_LakeAtRest ==
    /\ (lastKernel \in GodunovKernels /\ dTimestep > 0 /\ AtRest(prevSrc)) =>
          \A c \in InteriorCells :
              /\ GodunovDelta(prevSrc, dBedElevation, c) = [x |-> 0, z |-> 0, w |-> 0]
              /\ pCellStateDst[c] = prevSrc[c]
    /\ (Swapped /\ AtRest(prevSrc)) => pCellStateSrc = prevSrc

\* a third step has been computed on a lake with emerged and wet cells
C6_Witness ==
    /\ lastKernel \in GodunovKernels
    /\ dTimestep > 0
    /\ StepsDone >= 3
    /\ AtRest(prevSrc)
    /\ \E c \in InteriorCells : prevSrc[c].x - dBedElevation[c] >= QUITE_SMALL
    /\ \E c \in InteriorCells :
          /\ prevSrc[c].x = dBedElevation[c]
          /\ \E d \in {DOMAIN_DIR_N, DOMAIN_DIR_E, DOMAIN_DIR_S, DOMAIN_DIR_W} :
                prevSrc[Neighbour(c, d)].x < dBedElevation[c]

\* ------------------------------------------------------------------------
\* Volume on a closed domain
\* ------------------------------------------------------------------------

RECURSIVE SumTo(_, _)
SumTo(f, n) == IF n < 0 THEN 0 ELSE f[n] + SumTo(f, n - 1)

\* no boundary kernel and no friction kernel is queued, Manning's n is 0 and
\* the rim is a dry wall
ClosedDomain ==
    /\ \A i \in 1 .. Len(hostQueue) :
          hostQueue[i].kernel \notin BoundaryKernels \cup {"per_Friction"}
    /\ \A c \in Cells : dManningCoef[c] = 0
    /\ \A c \in Cells \ InteriorCells :
          dBedElevation[c] = WallBed /\ prevSrc[c] = Still(WallBed)

\* the rate of fall of the level the last scheme kernel computed for cell c
\* from the fluxes (Godunov-type) or discharges (inertial) of its interfaces
LevelRate(c) ==
    IF lastKernel \in GodunovKernels
    THEN GodunovDelta(prevSrc, dBedElevation, c).x
    ELSE 0 - InertialDelta(prevSrc, dBedElevation, dManningCoef, c, dTimestep)

\* C7: a scheme kernel run with a timestep > 0 on a closed domain conserves
\* the volume: the rates of fall of the interior cells sum to zero (each
\* interface flux is taken with the same value by both its cells), and every
\* interior cell of the destination buffer holds the level of the source
\* lowered by its rate times the timestep (no clamp or skipped write adds or
\* removes water)
C7_VolumeConserved ==
    (lastKernel \in SchemeKernels /\ dTimestep > 0 /\ ClosedDomain) =>
        /\ SumTo([c \in Cells |-> IF Interior(c) THEN LevelRate(c) ELSE 0],
                 DOMAIN_CELLCOUNT - 1) = 0
        /\ \A c \in InteriorCells :
              pCellStateDst[c].x = prevSrc[c].x - TimesStep(LevelRate(c), dTimestep)

\* ------------------------------------------------------------------------
\* Specification of uniform rainfall: bdy_Uniform, the reduction and the
\* controller, step after step, on a basin of still water
\* ------------------------------------------------------------------------

\* the rate that raises the level by one unit per tick
RainRate == RATE_PER_LENGTH * TicksPerSecond

\* level of the basin before the rain
RainLevel == 1

\* sync times at the start of a run under rain
RainSyncPoints == {25, 30, 6010}

RainQueue ==
    <<BoundaryLaunch("bdy_Uniform", UniformSeries(BOUNDARY_UNIFORM_RAIN_INTENSITY, RainRate)),
      Launch("tst_Reduce"), Launch("tst_Advance_Normal")>>

\* the state of a run under rain before its first step
InitRainOf(queue) ==
    /\ pCellStateSrc = [c \in Cells |-> Still(RainLevel)]
    /\ pCellStateDst = pCellStateSrc
    /\ dBedElevation = FlatBed
    /\ dManningCoef = [c \in Cells |-> 0]
    /\ pReductionData = [g \in 0 .. (TIMESTEP_WORKERS - 1) |-> 0]
    /\ dTime = 0
    /\ dTimeSync \in RainSyncPoints
    /\ dTimestep \in StartTimesteps
    /\ dTimeHydrological = 0
    /\ dBatchTimesteps = 0
    /\ uiBatchSuccessful = 0
    /\ uiBatchSkipped = 0
    /\ lastKernel = "init"
    /\ nLaunch = 0
    /\ frArgs = NoCall
    /\ frResult = NoCall
    /\ pipeRun = NoCall
    /\ streaming = NoStream
    /\ prevSrc = pCellStateSrc
    /\ prevDst = pCellStateDst
    /\ hostQueue = queue
    /\ stage = 1

InitRain == InitRainOf(RainQueue)

NextRain ==
    \/ bdy_Uniform
    \/ tst_Reduce
    \/ tst_Advance_Normal
    \/ HostRaiseSync

SpecRain == InitRain /\ [][NextRain]_vars

\* C11 as stated: after each step (bdy_Uniform, then tst_Advance_Normal)
\* under a constant rain rate, the time bdy_Uniform has applied to an enabled
\* interior cell, read from the rise of its level, is the simulated time
\* less the hydrological time not yet applied.
C11_RainOnce ==
    lastKernel = "tst_Advance_Normal" =>
        \A c \in InteriorCells :
            pCellStateSrc[c].x - RainLevel = dTime - dTimeHydrological


\* ------------------------------------------------------------------------
\* bdy_SimplePipe when the iteration fails
\* ------------------------------------------------------------------------

\* the configuration of the launch that ran last
LastConfig == hostQueue[IF stage = 1 THEN Len(hostQueue) ELSE stage - 1].pConfig

\* the two cells the pipe of the last launch joins
PipeStart == getCellID(LastConfig.uiStartCellX, LastConfig.uiStartCellY)

PipeEnd == getCellID(LastConfig.uiEndCellX, LastConfig.uiEndCellY)

\* the last launch was a bdy_SimplePipe whose iteration failed
PipeRunFailed ==
    /\ lastKernel = "bdy_SimplePipe"
    /\ pipeRun.called
    /\ PipeFailed(pipeRun.uiIterations, pipeRun.dError)

\* C12 as stated: when the Darcy-Weisbach iteration of bdy_SimplePipe fails
\* to converge (the cap is reached or the error is above the tolerance at
\* the exit of the loop), the levels written back to the two endpoint cells
\* are both NaN.
C12_FailedPipeIsNaN ==
    PipeRunFailed =>
        /\ pCellStateSrc[PipeStart].x = NaN
        /\ pCellStateSrc[PipeEnd].x = NaN


\* ------------------------------------------------------------------------
\* Boundary kernels of a step that does not advance
\* ------------------------------------------------------------------------

\* Specification of gridded rainfall: both gridded kernels, the reduction
\* and the controller, step after step, on a basin of still water
GriddedQueue ==
    <<BoundaryLaunch("bdy_Gridded", GriddedSeries(BOUNDARY_GRIDDED_RAIN_INTENSITY, 5, RainRate)),
      BoundaryLaunch("bdy_StreamingGridded", GriddedSeries(BOUNDARY_GRIDDED_MASS_FLUX, 1, 1)),
      Launch("tst_Reduce"), Launch("tst_Advance_Normal")>>

InitGridded == InitRainOf(GriddedQueue)

NextGridded ==
    \/ bdy_Gridded
    \/ bdy_StreamingGridded
    \/ tst_Reduce
    \/ tst_Advance_Normal
    \/ HostRaiseSync

SpecGridded == InitGridded /\ [][NextGridded]_vars

\* C13 as stated: a boundary kernel invoked with dTimestep <= 0 leaves every
\* cell state as it was, whatever dTimeHydrological is.
C13_BoundaryFrame ==
    (lastKernel \in BoundaryKernels /\ dTimestep <= 0) => pCellStateSrc = prevSrc


\* ------------------------------------------------------------------------
\* Specification of reconstructInterface alone: one call on given states
\* ------------------------------------------------------------------------

\* the flux across an interface: reconstructInterface, then riemannSolver on
\* the two sides it returns
FluxOf(ucDirection, pRecon) == riemannSolver(ucDirection, pRecon.pLeft, pRecon.pRight)

InterfaceFlux(pStateLeft, dBedLeft, pStateRight, dBedRight, ucDirection) ==
    FluxOf(ucDirection,
           reconstructInterface(pStateLeft, dBedLeft, pStateRight, dBedRight, ucDirection))

ReconLevels == {0, 1, 3}

ReconBeds == {0, 2}

ReconDischarges == {-2, 0, 2}

ReconDirections == {DOMAIN_DIR_N, DOMAIN_DIR_E, DOMAIN_DIR_S, DOMAIN_DIR_W}

InitRecon ==
    /\ pCellStateSrc = Pool(0, 0)
    /\ pCellStateDst = Pool(0, 0)
    /\ dBedElevation = FlatBed
    /\ dManningCoef = [c \in Cells |-> 0]
    /\ pReductionData = [g \in 0 .. (TIMESTEP_WORKERS - 1) |-> 0]
    /\ dTime = 0
    /\ dTimeSync = 0
    /\ dTimestep = 0
    /\ dTimeHydrological = 0
    /\ dBatchTimesteps = 0
    /\ uiBatchSuccessful = 0
    /\ uiBatchSkipped = 0
    /\ lastKernel = "init"
    /\ nLaunch = 0
    /\ prevSrc = pCellStateSrc
    /\ prevDst = pCellStateDst
    /\ hostQueue = <<>>
    /\ stage = 0
    /\ \E zl \in ReconLevels, zr \in ReconLevels, bl \in ReconBeds, br \in ReconBeds,
          ql \in ReconDischarges, qr \in ReconDischarges, d \in ReconDirections :
          frArgs = [called |-> TRUE,
                    pStateLeft |-> Cell4(zl, zl, ql, ql),
                    dBedLeft |-> bl,
                    pStateRight |-> Cell4(zr, zr, qr, qr),
                    dBedRight |-> br,
                    ucDirection |-> d]
    /\ frResult = NoCall
    /\ pipeRun = NoCall
    /\ streaming = NoStream

CallReconstructInterface ==
    /\ frArgs.called
    /\ ~frResult.called
    /\ frResult' = [called |-> TRUE,
                    pRecon |-> reconstructInterface(frArgs.pStateLeft, frArgs.dBedLeft,
                                                    frArgs.pStateRight, frArgs.dBedRight,
                                                    frArgs.ucDirection),
                    pFlux |-> InterfaceFlux(frArgs.pStateLeft, frArgs.dBedLeft,
                                            frArgs.pStateRight, frArgs.dBedRight,
                                            frArgs.ucDirection)]
    /\ UNCHANGED <<gridVars, pReductionData, timeVars, histVars, hostVars, frArgs, streaming>>

NextRecon == CallReconstructInterface

SpecRecon == InitRecon /\ [][NextRecon]_vars

\* C14: reconstructInterface preserves the positivity of the depth: for any
\* left and right states, beds and direction, the depth of both output sides
\* is not negative, both sides carry the same bed, and on each side the
\* level less the bed is the depth, after the vertical shift.
C14_DepthPositivity ==
    frResult.called =>
        /\ frResult.pRecon.pLeft.S1 >= 0
        /\ frResult.pRecon.pRight.S1 >= 0
        /\ frResult.pRecon.pLeft.S6 = frResult.pRecon.pRight.S6
        /\ frResult.pRecon.pLeft.S0 - frResult.pRecon.pLeft.S6 = frResult.pRecon.pLeft.S1
        /\ frResult.pRecon.pRight.S0 - frResult.pRecon.pRight.S6 = frResult.pRecon.pRight.S1

\* a call where one side lies below the higher bed and the bed is shifted
C14_Witness ==
    /\ frResult.called
    /\ frArgs.pStateLeft.x < frArgs.dBedRight
    /\ frArgs.pStateRight.x > frArgs.dBedRight
    /\ frResult.pRecon.pLeft.S1 = 0
    /\ frResult.pRecon.pRight.S1 > 0
    /\ frResult.pRecon.pLeft.S6 < frArgs.dBedRight


\* ------------------------------------------------------------------------
\* The sync time in tst_Advance_Normal
\* ------------------------------------------------------------------------

\* tst_Advance_Normal has just run
Advanced == lastKernel = "tst_Advance_Normal"

\* the step at hand is a launch of tst_Advance_Normal
AdvanceStep == lastKernel' = "tst_Advance_Normal" /\ nLaunch' = nLaunch + 1

\* the candidate timestep of tst_Advance_Normal at the time it has advanced to
Candidate == CandidateTimestep(dTime, pReductionData)

\* C15 as stated: with the candidate timestep computed, tst_Advance_Normal
\* sets the timestep to dTimeSync - dTime if dTime + candidate >= dTimeSync
\* and dTimeSync - dTime > VERY_SMALL, and negates it in every other case.
C15_SyncOrNegate ==
    [][AdvanceStep =>
        dTimestep' = LimitsAfterSync(dTime',
                        IF dTime' + Candidate' >= dTimeSync /\ dTimeSync - dTime' > VERY_SMALL
                        THEN dTimeSync - dTime'
                        ELSE 0 - Candidate')]_vars

\* C15: with the candidate timestep computed, tst_Advance_Normal sets the
\* timestep to dTimeSync - dTime if dTime + candidate >= dTimeSync and
\* dTimeSync - dTime > VERY_SMALL, negates it if dTime + candidate >= dTimeSync
\* and dTimeSync - dTime <= VERY_SMALL, and leaves the candidate as it is if
\* dTime + candidate < dTimeSync.
C15_SyncLimit ==
    [][AdvanceStep =>
        /\ (dTime' + Candidate' >= dTimeSync /\ dTimeSync - dTime' > VERY_SMALL)
              => dTimestep' = LimitsAfterSync(dTime', dTimeSync - dTime')
        /\ (dTime' + Candidate' >= dTimeSync /\ dTimeSync - dTime' <= VERY_SMALL)
              => dTimestep' = LimitsAfterSync(dTime', 0 - Candidate')
        /\ dTime' + Candidate' < dTimeSync
              => dTimestep' = LimitsAfterSync(dTime', Candidate')]_vars

\* a tst_Advance_Normal whose candidate ends before the sync time and is
\* committed as it is
C15_Witness ==
    /\ Advanced
    /\ dTime + Candidate < dTimeSync
    /\ dTimestep = Candidate
    /\ dTimestep > 0


\* ------------------------------------------------------------------------
\* The pause at the sync time
\* ------------------------------------------------------------------------

\* the sync time is reached and the committed timestep is negative
Paused == dTimeSync - dTime <= VERY_SMALL /\ dTimestep < 0

\* the step at hand is a launch of a kernel, the host leaving the sync time
\* and the timestep to the controller
KernelStep == nLaunch' = nLaunch + 1 /\ lastKernel' # "HostSwap" /\ dTimeSync' = dTimeSync

\* what the controller keeps during the pause
PauseKept ==
    /\ dTime' = dTime
    /\ dBatchTimesteps' = dBatchTimesteps
    /\ dTimestep' <= 0
    /\ uiBatchSuccessful' = uiBatchSuccessful
    /\ AdvanceStep => uiBatchSkipped' = uiBatchSkipped + 1

\* C16 as stated: once the sync time is reached and the timestep committed
\* negative, every kernel launched before the host changes the sync time or
\* the timestep leaves the time and the batch time as they are, commits a
\* timestep <= 0 again, counts a skipped and no successful step, and leaves
\* the current cell states unchanged.
C16_StaysPaused ==
    [][(Paused /\ KernelStep) => (PauseKept /\ pCellStateSrc' = pCellStateSrc)]_vars


\* ------------------------------------------------------------------------
\* The time of a batch
\* ------------------------------------------------------------------------

\* the step at hand is a launch of tst_UpdateTimestep
UpdateStep == lastKernel' = "tst_UpdateTimestep" /\ nLaunch' = nLaunch + 1

\* the step at hand is a launch of tst_ResetCounters
ResetStep == lastKernel' = "tst_ResetCounters" /\ nLaunch' = nLaunch + 1

\* C17 as stated: dBatchTimesteps is the sum of the timesteps applied in the
\* batch: tst_ResetCounters sets it to zero, and every tst_Advance_Normal
\* and tst_UpdateTimestep after it changes it by what it adds to dTime, so
\* that it equals the advance of dTime since the reset.
C17_BatchIsAdvance ==
    [][/\ ResetStep => dBatchTimesteps' = 0
       /\ (AdvanceStep \/ UpdateStep)
             => dBatchTimesteps' - dBatchTimesteps = dTime' - dTime]_vars


\* ------------------------------------------------------------------------
\* The hydrological clock
\* ------------------------------------------------------------------------

\* the timestep a launch of tst_Advance_Normal applies
TimestepIn == fmax(0, dTimestep)

\* C18 as stated: tst_Advance_Normal adds the timestep it applies to
\* dTimeHydrological and wraps dTimeHydrological to zero whenever it exceeds
\* TIMESTEP_HYDROLOGICAL.
C18_WrapsToZero ==
    [][AdvanceStep =>
        dTimeHydrological' = IF dTimeHydrological + TimestepIn > TIMESTEP_HYDROLOGICAL
                             THEN 0
                             ELSE dTimeHydrological + TimestepIn]_vars

\* C18: tst_Advance_Normal adds the timestep it applies to dTimeHydrological
\* where dTimeHydrological is at most TIMESTEP_HYDROLOGICAL before the call,
\* whatever the sum; where it exceeds TIMESTEP_HYDROLOGICAL before the call
\* it starts again from zero, and the timestep applied is what it holds.
C18_RestartsNextCall ==
    [][AdvanceStep =>
        /\ dTimeHydrological <= TIMESTEP_HYDROLOGICAL
              => dTimeHydrological' = dTimeHydrological + TimestepIn
        /\ dTimeHydrological > TIMESTEP_HYDROLOGICAL
              => dTimeHydrological' = TimestepIn]_vars

\* the clock has run past the period, has started again and holds the
\* timestep applied since
C18_Witness ==
    /\ Advanced
    /\ dTime > TIMESTEP_HYDROLOGICAL
    /\ dTimeHydrological > 0
    /\ dTimeHydrological < TIMESTEP_HYDROLOGICAL
    /\ dTimeHydrological < dTime


\* ------------------------------------------------------------------------
\* The minimum timestep
\* ------------------------------------------------------------------------

\* C19 as stated: every positive timestep tst_Advance_Normal commits is at
\* least TIMESTEP_MINIMUM, whatever the time, the sync time and the maximum
\* speed are.
C19_AtLeastMinimum ==
    [][(AdvanceStep /\ dTimestep' > 0) => dTimestep' >= TIMESTEP_MINIMUM]_vars

\* C19: every positive timestep tst_Advance_Normal commits is at least
\* TIMESTEP_MINIMUM, or it is the time left to the sync time or to the end
\* of the simulation.
C19_MinimumOrRemainder ==
    [][(AdvanceStep /\ dTimestep' > 0) =>
        \/ dTimestep' >= TIMESTEP_MINIMUM
        \/ dTimestep' = dTimeSync - dTime'
        \/ dTimestep' = SCHEME_ENDTIME - dTime']_vars

\* the minimum was imposed on a smaller positive timestep well before the
\* sync time
C19_Witness ==
    /\ Advanced
    /\ dTimestep = TIMESTEP_MINIMUM
    /\ DynamicTimestep(dTime, pReductionData) > 0
    /\ DynamicTimestep(dTime, pReductionData) < TIMESTEP_MINIMUM
    /\ dTime + dTimestep < dTimeSync


\* ------------------------------------------------------------------------
\* Specification of tst_Reduce alone, launched with a given number of
\* work-groups of a given size (TIMESTEP_GROUPSIZE of the build, the length
\* of the scratch array)
\* ------------------------------------------------------------------------

\* the cells one work-item visits: gid, gid + global size, ...
RECURSIVE VisitLoop(_, _, _)
VisitLoop(ulCellID, uiGlobalSize, visited) ==
    IF ulCellID >= DOMAIN_CELLCOUNT THEN visited
    ELSE VisitLoop(ulCellID + uiGlobalSize, uiGlobalSize, visited \cup {ulCellID})

\* the while loop of one work-item under a global size
RECURSIVE StridedMaxOf(_, _, _, _, _)
StridedMaxOf(pCellData, dBedData, ulCellID, dMaxSpeed, uiGlobalSize) ==
    IF ulCellID >= DOMAIN_CELLCOUNT THEN dMaxSpeed
    ELSE StridedMaxOf(pCellData, dBedData, ulCellID + uiGlobalSize,
                      fmax(dMaxSpeed, CellSpeed(pCellData[ulCellID], dBedData[ulCellID])),
                      uiGlobalSize)

\* the funnelling loop of one work-group of uiLocalSize work-items
RECURSIVE FunnelOf(_, _, _)
FunnelOf(pScratchData, iOffset, uiLocalSize) ==
    IF iOffset <= 0 THEN pScratchData
    ELSE FunnelOf([l \in 0 .. (uiLocalSize - 1) |->
                      IF l < iOffset
                      THEN fmax(pScratchData[l], pScratchData[l + iOffset])
                      ELSE pScratchData[l]],
                  iOffset \div 2, uiLocalSize)

\* between two barriers of the funnelling loop a work-item reads a slot
\* that another work-item writes
RECURSIVE FunnelRace(_, _)
FunnelRace(iOffset, uiLocalSize) ==
    IF iOffset <= 0 THEN FALSE
    ELSE \/ \E reader \in 0 .. (uiLocalSize - 1), writer \in 0 .. (uiLocalSize - 1) :
              /\ reader # writer
              /\ reader < iOffset
              /\ writer < iOffset
              /\ reader + iOffset = writer
         \/ FunnelRace(iOffset \div 2, uiLocalSize)

\* pScratchData of a work-group at the first barrier
ScratchOf(pCellData, dBedData, group, uiLocalSize, uiGroups) ==
    [l \in 0 .. (uiLocalSize - 1) |->
        StridedMaxOf(pCellData, dBedData, group * uiLocalSize + l, 0, uiLocalSize * uiGroups)]

\* the largest value of an array
ArrayMax(a) == CHOOSE v \in {a[k] : k \in DOMAIN a} : \A k \in DOMAIN a : a[k] <= v

ReduceLocalSizes == {1, 2, 3, 4, 6}

ReduceGroupCounts == {1, 2, 3}

ReduceDepths == {4, 9}

InitReduce ==
    /\ \E peak \in Cells, h \in ReduceDepths :
          pCellStateSrc = [c \in Cells |-> IF c = peak THEN Still(h) ELSE Still(3)]
    /\ pCellStateDst = pCellStateSrc
    /\ dBedElevation = FlatBed
    /\ dManningCoef = [c \in Cells |-> 0]
    /\ pReductionData = [g \in 0 .. (TIMESTEP_WORKERS - 1) |-> 0]
    /\ dTime = 0
    /\ dTimeSync = 0
    /\ dTimestep = 0
    /\ dTimeHydrological = 0
    /\ dBatchTimesteps = 0
    /\ uiBatchSuccessful = 0
    /\ uiBatchSkipped = 0
    /\ lastKernel = "init"
    /\ nLaunch = 0
    /\ prevSrc = pCellStateSrc
    /\ prevDst = pCellStateDst
    /\ hostQueue = <<>>
    /\ stage = 0
    /\ \E uiLocalSize \in ReduceLocalSizes, uiGroups \in ReduceGroupCounts :
          frArgs = [called |-> TRUE, uiLocalSize |-> uiLocalSize, uiGroups |-> uiGroups]
    /\ frResult = NoCall
    /\ pipeRun = NoCall
    /\ streaming = NoStream

\* one launch of tst_Reduce: what each work-item visits, the scratch array of
\* each work-group at the first barrier and after the last, and W
LaunchReduce ==
    /\ frArgs.called
    /\ ~frResult.called
    /\ frResult' =
          [called |-> TRUE,
           visited |-> [gid \in 0 .. (frArgs.uiLocalSize * frArgs.uiGroups - 1) |->
                           VisitLoop(gid, frArgs.uiLocalSize * frArgs.uiGroups, {})],
           scratch |-> [group \in 0 .. (frArgs.uiGroups - 1) |->
                           ScratchOf(pCellStateSrc, dBedElevation, group,
                                     frArgs.uiLocalSize, frArgs.uiGroups)],
           race |-> FunnelRace(frArgs.uiLocalSize \div 2, frArgs.uiLocalSize),
           W |-> [group \in 0 .. (frArgs.uiGroups - 1) |->
                     FunnelOf(ScratchOf(pCellStateSrc, dBedElevation, group,
                                        frArgs.uiLocalSize, frArgs.uiGroups),
                              frArgs.uiLocalSize \div 2, frArgs.uiLocalSize)[0]]]
    /\ UNCHANGED <<gridVars, pReductionData, timeVars, histVars, hostVars, frArgs, streaming>>

NextReduce == LaunchReduce

SpecReduce == InitReduce /\ [][NextReduce]_vars

\* C20 as stated: for any global size and work-group size, powers of two or
\* not, after tst_Reduce every cell has been visited by exactly one
\* work-item, the value a work-group writes to W (its scratch[0]) is the
\* largest of the maxima of its work-items, no work-item reads a scratch
\* slot that another writes between the same two barriers, and the largest
\* W is the largest speed of all cells (a cell that is dry or disabled has
\* speed 0).
C20_TrueMaximum ==
    frResult.called =>
        /\ \A c \in Cells :
              Cardinality({gid \in DOMAIN frResult.visited : c \in frResult.visited[gid]}) = 1
        /\ \A group \in DOMAIN frResult.W :
              frResult.W[group] = ArrayMax(frResult.scratch[group])
        /\ ~frResult.race
        /\ ArrayMax(frResult.W)
              = ArrayMax([c \in Cells |-> CellSpeed(pCellStateSrc[c], dBedElevation[c])])


\* ------------------------------------------------------------------------
\* The stopping conditions in a Godunov-type step
\* ------------------------------------------------------------------------

\* a Godunov-type kernel has just run with a timestep > 0
GodunovRan == lastKernel \in GodunovKernels /\ dTimestep > 0

\* cell c was computed by the kernel that has just run
Computed(c) ==
    /\ Interior(c)
    /\ ~Disabled(prevSrc[c])
    /\ ~AllDry(prevSrc, dBedElevation, c)

\* C21 as stated: where one of the four reconstructInterface calls of a cell
\* returns stop > 0 in a Godunov-type step, the discharges written to the
\* destination buffer for that cell are both zero.
C21_FlowArrest ==
    GodunovRan =>
        \A c \in Cells :
            (Computed(c) /\ StopCount(prevSrc, dBedElevation, c) > 0)
                => (pCellStateDst[c].z = 0 /\ pCellStateDst[c].w = 0)


\* ------------------------------------------------------------------------
\* The stopping conditions of reconstructInterface
\* ------------------------------------------------------------------------

\* the direction of the call runs north-south
AlongY == frArgs.ucDirection = DOMAIN_DIR_N \/ frArgs.ucDirection = DOMAIN_DIR_S

\* velocity along the direction of the call: of the left and right state
\* before the call, and of the two sides it returns
VelocityLeftIn ==
    IF AlongY THEN Recon8(frArgs.pStateLeft, frArgs.dBedLeft).S5
    ELSE Recon8(frArgs.pStateLeft, frArgs.dBedLeft).S4

VelocityRightIn ==
    IF AlongY THEN Recon8(frArgs.pStateRight, frArgs.dBedRight).S5
    ELSE Recon8(frArgs.pStateRight, frArgs.dBedRight).S4

VelocityLeftOut == IF AlongY THEN frResult.pRecon.pLeft.S5 ELSE frResult.pRecon.pLeft.S4

VelocityRightOut == IF AlongY THEN frResult.pRecon.pRight.S5 ELSE frResult.pRecon.pRight.S4

\* a side the call returns is dry
DryLeft == frResult.pRecon.pLeft.S1 <= VERY_SMALL

DryRight == frResult.pRecon.pRight.S1 <= VERY_SMALL

\* C22 as stated: for every direction, where one side is dry and the
\* velocity of the other side along the direction points to the dry side
\* (left to right is positive), the stop counter is incremented and that
\* velocity is zeroed.
C22_StopsInflow ==
    frResult.called =>
        /\ (DryRight /\ VelocityLeftIn > 0)
              => (frResult.pRecon.ucStop > 0 /\ VelocityLeftOut = 0)
        /\ (DryLeft /\ VelocityRightIn < 0)
              => (frResult.pRecon.ucStop > 0 /\ VelocityRightOut = 0)

\* C22: for every direction, where one side is dry and the velocity of the
\* other side along the direction points away from the dry side, the stop
\* counter is incremented and that velocity is zeroed; a velocity that
\* points to the dry side is returned as it is.
C22_StopsOutflow ==
    frResult.called =>
        /\ (DryRight /\ VelocityLeftIn < 0)
              => (frResult.pRecon.ucStop > 0 /\ VelocityLeftOut = 0)
        /\ (DryLeft /\ VelocityRightIn > 0)
              => (frResult.pRecon.ucStop > 0 /\ VelocityRightOut = 0)
        /\ VelocityLeftIn >= 0 => VelocityLeftOut = VelocityLeftIn
        /\ VelocityRightIn <= 0 => VelocityRightOut = VelocityRightIn

\* a wet left side moving away from a dry right side was stopped
C22_Witness ==
    /\ frResult.called
    /\ DryRight
    /\ ~DryLeft
    /\ VelocityLeftIn < 0
    /\ VelocityLeftOut = 0
    /\ frResult.pRecon.ucStop > 0


\* ------------------------------------------------------------------------
\* calculateInertialFlux as a function of its arguments
\* ------------------------------------------------------------------------

InertialDischarges == {-200, -5, 0, 5, 200}

InertialLevels == {0, 2, 10, 50}

InertialBeds == {0, 5}

InertialMannings == {0, 3}

InertialTimesteps == {3, 100}

InitInertial ==
    /\ pCellStateSrc = Pool(0, 0)
    /\ pCellStateDst = Pool(0, 0)
    /\ dBedElevation = FlatBed
    /\ dManningCoef = [c \in Cells |-> 0]
    /\ pReductionData = [g \in 0 .. (TIMESTEP_WORKERS - 1) |-> 0]
    /\ dTime = 0
    /\ dTimeSync = 0
    /\ dTimestep = 0
    /\ dTimeHydrological = 0
    /\ dBatchTimesteps = 0
    /\ uiBatchSuccessful = 0
    /\ uiBatchSkipped = 0
    /\ lastKernel = "init"
    /\ nLaunch = 0
    /\ prevSrc = pCellStateSrc
    /\ prevDst = pCellStateDst
    /\ hostQueue = <<>>
    /\ stage = 0
    /\ \E q \in InertialDischarges, lu \in InertialLevels, ld \in InertialLevels,
          bu \in InertialBeds, bd \in InertialBeds,
          n \in InertialMannings, dt \in InertialTimesteps :
          frArgs = [called |-> TRUE,
                    dManningCoef |-> n,
                    dTimestep |-> dt,
                    dPreviousDischarge |-> q,
                    dLevelUpstream |-> lu,
                    dBedUpstream |-> bu,
                    dLevelDownstream |-> ld,
                    dBedDownstream |-> bd]
    /\ frResult = NoCall
    /\ pipeRun = NoCall
    /\ streaming = NoStream

CallCalculateInertialFlux ==
    /\ frArgs.called
    /\ ~frResult.called
    /\ frResult' = [called |-> TRUE,
                    dDischarge |-> calculateInertialFlux(frArgs.dManningCoef,
                                                         frArgs.dTimestep,
                                                         frArgs.dPreviousDischarge,
                                                         frArgs.dLevelUpstream,
                                                         frArgs.dBedUpstream,
                                                         frArgs.dLevelDownstream,
                                                         frArgs.dBedDownstream)]
    /\ UNCHANGED <<gridVars, pReductionData, timeVars, histVars, hostVars, frArgs, streaming>>

NextInertial == CallCalculateInertialFlux

SpecInertial == InitInertial /\ [][NextInertial]_vars

\* dDepth and dSlope of the call, and the discharge before the limiter
InertialDepth == fmax(frArgs.dLevelDownstream, frArgs.dLevelUpstream) - fmax(frArgs.dBedUpstream, frArgs.dBedDownstream)

InertialSlope == Div(frArgs.dLevelDownstream - frArgs.dLevelUpstream, DOMAIN_DELTAX)

Unlimited == InertialQuotient(frArgs.dManningCoef, frArgs.dTimestep, frArgs.dPreviousDischarge, InertialDepth, InertialSlope)

\* Fr_max . h . sqrt(g . h)
FroudeBound == InertialDepth * sqrt(GRAVITY * InertialDepth) * FROUDE_LIMIT

\* C23 as stated: the returned discharge is within the Froude bound, and
\* where the updated discharge has the sign opposite to the previous
\* discharge the returned discharge is zero.
C23_ClampsReverse ==
    frResult.called =>
        /\ InertialDepth >= VERY_SMALL => fabs(frResult.dDischarge) <= FroudeBound
        /\ Unlimited * frArgs.dPreviousDischarge < 0 => frResult.dDischarge = 0

\* C23: the returned discharge is within the Froude bound, keeps the sign of
\* the updated discharge, and is zero where the depth at the interface is
\* below the threshold.
C23_FroudeBound ==
    frResult.called =>
        /\ InertialDepth >= VERY_SMALL => fabs(frResult.dDischarge) <= FroudeBound
        /\ InertialDepth >= VERY_SMALL => frResult.dDischarge * Unlimited >= 0
        /\ (InertialDepth >= VERY_SMALL /\ fabs(Unlimited) <= FroudeBound)
              => frResult.dDischarge = Unlimited
        /\ InertialDepth < VERY_SMALL => frResult.dDischarge = 0

\* the limiter cut a discharge that had crossed zero
C23_Witness ==
    /\ frResult.called
    /\ InertialDepth >= VERY_SMALL
    /\ Unlimited * frArgs.dPreviousDischarge < 0
    /\ fabs(Unlimited) > FroudeBound
    /\ fabs(frResult.dDischarge) = FroudeBound
    /\ frResult.dDischarge # 0


\* ------------------------------------------------------------------------
\* CBoundaryStreamingGridded on the host: setupFromConfig, streamBoundary
\* and the destructor. A raster is named by the interval it was recorded
\* for; a block of memory by its position in the heap, 0 is NULL.
\* ------------------------------------------------------------------------

\* currentSeriesStep before the first call
NoSeriesStep == 0 - 1

\* a raster that is none of the files
NoRaster == 0 - 1

\* "Deal with the gridded files...": the file names kept, from dTime on
RECURSIVE FilenamesFrom(_, _, _, _)
FilenamesFrom(dCallTime, dLength, dInterval, present) ==
    IF dCallTime > dLength THEN <<>>
    ELSE IF (dCallTime \div dInterval) \notin present
    THEN FilenamesFrom(dCallTime + dInterval, dLength, dInterval, present)
    ELSE <<dCallTime \div dInterval>> \o FilenamesFrom(dCallTime + dInterval, dLength, dInterval, present)

\* the object after setupFromConfig and prepareBoundary
setupFromConfig(dLength, dInterval, present, single) ==
    [made |-> TRUE,
     destroyed |-> FALSE,
     uiTimeseriesLength |-> (dLength \div dInterval) + 1,
     dTimeseriesInterval |-> dInterval,
     dSimulationLength |-> dLength,
     sFilenames |-> FilenamesFrom(0, dLength, dInterval, present),
     singlePrecision |-> single,
     currentSeriesStep |-> NoSeriesStep,
     buffer |-> 0,
     heap |-> <<>>,
     pBufferValues |-> NoRaster,
     dTime |-> 0,
     uploads |-> 0]

\* t of streamBoundary
SeriesStep(this, dCallTime) ==
    IF dCallTime \div this.dTimeseriesInterval < this.uiTimeseriesLength
    THEN dCallTime \div this.dTimeseriesInterval
    ELSE this.uiTimeseriesLength

\* sFilenames[t]; a position past the end of the vector yields stray
FileAt(sFilenames, t, stray) ==
    IF t + 1 <= Len(sFilenames) THEN sFilenames[t + 1] ELSE stray

\* one more delete of block p
Freed(heap, p) == [heap EXCEPT ![p].freed = heap[p].freed + 1]

\* new CBoundaryStreamingGriddedEntry(dCallTime, createArrayForBoundary(..))
HeapWithEntry(heap) ==
    Append(Append(heap, [kind |-> "dValues", freed |-> 0, dValues |-> 0]),
           [kind |-> "entry", freed |-> 0, dValues |-> Len(heap) + 1])

\* getBufferData, the memcpy and delete[] pGridData
HeapAfterCopy(heap, single) ==
    IF single
    THEN Append(heap, [kind |-> "pFloat", freed |-> 1, dValues |-> 0])
    ELSE Freed(heap, heap[Len(heap)].dValues)

\* the object after streamBoundary(dCallTime)
streamBoundary(this, dCallTime, stray) ==
    IF this.currentSeriesStep = SeriesStep(this, dCallTime)
    THEN [this EXCEPT !.dTime = dCallTime]
    ELSE [this EXCEPT
             !.dTime = dCallTime,
             !.currentSeriesStep = SeriesStep(this, dCallTime),
             !.buffer = Len(this.heap) + 2,
             !.heap = HeapAfterCopy(HeapWithEntry(this.heap), this.singlePrecision),
             !.pBufferValues = FileAt(this.sFilenames, SeriesStep(this, dCallTime), stray),
             !.uploads = this.uploads + 1]

\* the object after ~CBoundaryStreamingGridded: delete this->buffer, and the
\* entry's destructor delete[] this->dValues
DestroyedBoundary(this) ==
    [this EXCEPT
        !.destroyed = TRUE,
        !.heap = IF this.buffer = 0 THEN this.heap
                 ELSE Freed(Freed(this.heap, this.buffer), this.heap[this.buffer].dValues)]

SimulationLengths == {40, 50}

StreamIntervals == {20}

\* the intervals of a simulation
Intervals(dLength, dInterval) == 0 .. (dLength \div dInterval)

\* the times the host calls streamBoundary at
StreamTimes(dLength) == {t \in 0 .. dLength : t % 10 = 0}

\* what a read past the end of sFilenames may name
StrayRasters == {NoRaster, 0}

InitStream ==
    /\ pCellStateSrc = Pool(0, 0)
    /\ pCellStateDst = Pool(0, 0)
    /\ dBedElevation = FlatBed
    /\ dManningCoef = [c \in Cells |-> 0]
    /\ pReductionData = [g \in 0 .. (TIMESTEP_WORKERS - 1) |-> 0]
    /\ dTime = 0
    /\ dTimeSync = 0
    /\ dTimestep = 0
    /\ dTimeHydrological = 0
    /\ dBatchTimesteps = 0
    /\ uiBatchSuccessful = 0
    /\ uiBatchSkipped = 0
    /\ lastKernel = "init"
    /\ nLaunch = 0
    /\ prevSrc = pCellStateSrc
    /\ prevDst = pCellStateDst
    /\ hostQueue = <<>>
    /\ stage = 0
    /\ frArgs = NoCall
    /\ frResult = NoCall
    /\ pipeRun = NoCall
    /\ \E dLength \in SimulationLengths, dInterval \in StreamIntervals, single \in BOOLEAN :
          \E present \in (SUBSET Intervals(dLength, dInterval)) \ {{}} :
              streaming = setupFromConfig(dLength, dInterval, present, single)

\* the host calls streamBoundary with a time not before the last one
CallStreamBoundary ==
    /\ streaming.made
    /\ ~streaming.destroyed
    /\ \E t \in StreamTimes(streaming.dSimulationLength), stray \in StrayRasters :
          /\ t >= streaming.dTime
          /\ streaming' = streamBoundary(streaming, t, stray)
    /\ UNCHANGED <<gridVars, pReductionData, timeVars, histVars, hostVars, frArgs, frResult>>

DestroyBoundary ==
    /\ streaming.made
    /\ ~streaming.destroyed
    /\ streaming' = DestroyedBoundary(streaming)
    /\ UNCHANGED <<gridVars, pReductionData, timeVars, histVars, hostVars, frArgs, frResult>>

NextStream == CallStreamBoundary \/ DestroyBoundary

SpecStream == InitStream /\ [][NextStream]_vars

\* a call of streamBoundary that changed the object
StreamCall == streaming.made /\ streaming' # streaming /\ ~streaming'.destroyed

\* C24 as stated: after a call streamBoundary(t) of a non-decreasing
\* sequence the raster in the grid buffer is the raster of interval
\* floor(t / T_int), also where files were missing at the setup, and the
\* call uploads exactly when that interval is not the one uploaded last.
C24_ResidentRaster ==
    [][StreamCall =>
          /\ streaming'.pBufferValues = streaming'.dTime \div streaming.dTimeseriesInterval
          /\ (streaming'.uploads = streaming.uploads + 1)
                <=> (streaming'.dTime \div streaming.dTimeseriesInterval
                        # streaming.currentSeriesStep)]_vars



\* no file was missing at the setup
StreamComplete == Len(streaming.sFilenames) = streaming.uiTimeseriesLength

\* with every file present the raster in the grid buffer after a call is
\* the raster of the interval of the call, and the call uploads exactly when
\* the interval changed
ResidentWhenComplete ==
    [][(StreamCall /\ StreamComplete) =>
          /\ streaming'.pBufferValues = streaming'.dTime \div streaming.dTimeseriesInterval
          /\ (streaming'.uploads = streaming.uploads + 1)
                <=> (streaming'.dTime \div streaming.dTimeseriesInterval
                        # streaming.currentSeriesStep)]_vars



\* the configuration prepareBoundary hands to the device
StreamConfig ==
    [TimeseriesEntries |-> streaming.uiTimeseriesLength,
     TimeseriesInterval |-> streaming.dTimeseriesInterval]

\* C25 as stated: at every time of a call the index of bdy_Gridded into the
\* timeseries is at most TimeseriesEntries - 1, and the index streamBoundary
\* read its file list at is a position of that list.
C25_IndexInRange ==
    (streaming.made /\ streaming.uploads > 0) =>
        /\ GridTimestep(StreamConfig, streaming.dTime) <= StreamConfig.TimeseriesEntries - 1
        /\ streaming.currentSeriesStep >= 0
        /\ streaming.currentSeriesStep < Len(streaming.sFilenames)

\* a block of the heap was allocated by streamBoundary for the raster
RasterBlock(p) == streaming.heap[p].kind \in {"dValues", "entry", "pFloat"}

\* C30 as stated: no block that streamBoundary allocated is freed twice, and
\* once the object is destroyed every such block has been freed once, in
\* single and in double precision.
C30_FreedOnce ==
    streaming.made =>
        \A p \in 1 .. Len(streaming.heap) :
            RasterBlock(p) =>
                /\ streaming.heap[p].freed <= 1
                /\ streaming.destroyed => streaming.heap[p].freed = 1

\* the same in single precision alone
FreedOnceSingle == (streaming.made /\ ~streaming.singlePrecision) \/ C30_FreedOnce

\* the same in double precision alone
FreedOnceDouble == (streaming.made /\ streaming.singlePrecision) \/ C30_FreedOnce



\* ------------------------------------------------------------------------
\* The volume bdy_SimplePipe moves
\* ------------------------------------------------------------------------

\* the last launch was a bdy_SimplePipe that changed a cell
PipeTransferred == lastKernel = "bdy_SimplePipe" /\ pCellStateSrc # prevSrc

\* volume that left the upstream cell, and volume that reached the
\* downstream cell, in the last launch
VolumeRemoved == (prevSrc[PipeStart].x - pCellStateSrc[PipeStart].x) * DOMAIN_DELTAX * DOMAIN_DELTAY

VolumeAdded == (pCellStateSrc[PipeEnd].x - prevSrc[PipeEnd].x) * DOMAIN_DELTAX * DOMAIN_DELTAY

\* C29 as stated: on every call of bdy_SimplePipe that transfers water the
\* volume removed from the upstream cell equals the volume added to the
\* downstream cell, also where the upstream level is clamped to its bed and
\* where the downstream level was below its bed.
C29_PipeConservesVolume == PipeTransferred => VolumeRemoved = VolumeAdded

\* the same for the calls that leave the upstream cell above its bed and
\* found the downstream level at or above its bed
PipeUnclamped ==
    /\ pCellStateSrc[PipeStart].x > dBedElevation[PipeStart]
    /\ prevSrc[PipeEnd].x >= dBedElevation[PipeEnd]

ConservesWhenUnclamped == (PipeTransferred /\ PipeUnclamped) => VolumeRemoved = VolumeAdded



\* ------------------------------------------------------------------------
\* The cells a scheme kernel passes over
\* ------------------------------------------------------------------------

\* cell c was passed over by the scheme kernel of the step that ended: it is
\* on the perimeter, or it and its four neighbours were dry
Skipped(c) == ~Interior(c) \/ AllDry(prevSrc, dBedElevation, c)

\* C27 as stated: after a step with a timestep > 0 and the exchange of the
\* buffers, every cell the scheme kernel passed over has in the new current
\* buffer the state it had in the old current buffer; what a boundary kernel
\* wrote to such a cell in place is not replaced by the state of two steps
\* before.
C27_SkippedCellsContinue ==
    (Swapped /\ dTimestep > 0) =>
        \A c \in Cells : Skipped(c) => pCellStateSrc[c] = prevSrc[c]



\* ------------------------------------------------------------------------
\* gts_cacheEnabled against gts_cacheDisabled
\* ------------------------------------------------------------------------

\* the inner work-items of gts_cacheEnabled that stand on cell c
InnerItems(c) ==
    {item \in (0 .. (CacheGroups - 1)) \X (0 .. (CacheGroups - 1))
                \X (1 .. (GTS_DIM1 - 2)) \X (1 .. (GTS_DIM2 - 2)) :
        /\ CachedIndex(item[1], item[3], GTS_DIM1, DOMAIN_COLS) = CellX(c)
        /\ CachedIndex(item[2], item[4], GTS_DIM2, DOMAIN_ROWS) = CellY(c)}

\* every interior cell is the cell of exactly one inner work-item
InnerOnce == \A c \in InteriorCells : Cardinality(InnerItems(c)) = 1

\* C26 as stated: from the source buffer, destination buffer, bed and
\* timestep (positive, zero or negative) a Godunov-type kernel was launched
\* with, gts_cacheEnabled and gts_cacheDisabled leave the same destination
\* buffer, and every interior cell is an inner cell of exactly one
\* work-group.
C26_CacheEquivalent ==
    lastKernel \in GodunovKernels =>
        /\ gtsCacheEnabled(prevSrc, prevDst, dBedElevation, dTimestep)
              = gtsCacheDisabled(prevSrc, prevDst, dBedElevation, dTimestep)
        /\ InnerOnce

\* the same for launches with a timestep > 0 and no disabled cell
CacheEquivalentRunning ==
    (lastKernel \in GodunovKernels /\ dTimestep > 0
        /\ \A c \in Cells : ~Disabled(prevSrc[c])) =>
        /\ gtsCacheEnabled(prevSrc, prevDst, dBedElevation, dTimestep)
              = gtsCacheDisabled(prevSrc, prevDst, dBedElevation, dTimestep)
        /\ InnerOnce



\* ------------------------------------------------------------------------
\* The stopped velocity in riemannSolver
\* ------------------------------------------------------------------------

\* reconstructInterface set the velocity of a side along the direction of
\* the call to zero
StoppedLeft == VelocityLeftIn # 0 /\ VelocityLeftOut = 0

StoppedRight == VelocityRightIn # 0 /\ VelocityRightOut = 0

\* the velocity along the direction of the call riemannSolver works with
SolverVelocityLeft ==
    IF AlongY THEN Velocities(frResult.pRecon.pLeft).S5
    ELSE Velocities(frResult.pRecon.pLeft).S4

SolverVelocityRight ==
    IF AlongY THEN Velocities(frResult.pRecon.pRight).S5
    ELSE Velocities(frResult.pRecon.pRight).S4

\* a side with no motion along the direction of the call
Still8(p) == IF AlongY THEN [p EXCEPT !.S3 = 0, !.S5 = 0] ELSE [p EXCEPT !.S2 = 0, !.S4 = 0]

\* the two sides returned, the stopped ones with no motion along the
\* direction of the call
StoppedSides ==
    [pLeft |-> IF StoppedLeft THEN Still8(frResult.pRecon.pLeft) ELSE frResult.pRecon.pLeft,
     pRight |-> IF StoppedRight THEN Still8(frResult.pRecon.pRight) ELSE frResult.pRecon.pRight]

\* C28 as stated: a velocity that reconstructInterface set to zero under a
\* stopping condition is the velocity riemannSolver uses for that side, and
\* the flux of the interface is the flux of the two sides with that velocity
\* zero.
C28_StoppedVelocityUsed ==
    frResult.called =>
        /\ StoppedLeft => SolverVelocityLeft = 0
        /\ StoppedRight => SolverVelocityRight = 0
        /\ frResult.pFlux = FluxOf(frArgs.ucDirection, StoppedSides)

=============================================================================
